---------------------------- MODULE Spec2Model ----------------------------
(***************************************************************************)
(* Model of the Figma -> Rapier2D level exporter.                          *)
(*                                                                         *)
(* Conventions of the model                                                *)
(*  - Numbers are integers.  Every scene of the model is laid out on a     *)
(*    grid coarse enough that each division the code performs (w/2,        *)
(*    centroid sums / n, (w+h)*0.25, value * 1/ppm) is exact; Quot stops   *)
(*    the evaluation if a quotient is not.                                 *)
(*  - Angles are counted in quarter turns (1 = PI/2), so cos and sin are   *)
(*    taken from {-1,0,1} and rotation matrices have integer entries.      *)
(*  - A string the code inspects (node names, messages) is a sequence of   *)
(*    tokens: the prefixes "GameObject:", "Collider:", ... are one token,  *)
(*    a blank is the token " ", and a word is one token.                   *)
(*  - A function that can throw returns [ok |-> FALSE, err |-> message];   *)
(*    a function that writes to the reporter takes the reporter/UI state   *)
(*    `env` and returns the new one in the field env.                      *)
(***************************************************************************)
EXTENDS Integers, Sequences, FiniteSets, TLC

\* Largest number of GameObject groups placed directly in the level under test.
MaxObjects == 3

-----------------------------------------------------------------------------
(* Arithmetic *)

\* a / b where the model's inputs make it exact; evaluation stops otherwise.
Quot(a, b) ==
  IF b > 0
  THEN IF a % b = 0 THEN a \div b ELSE CHOOSE q \in {} : q * b = a
  ELSE IF (-a) % (-b) = 0 THEN (-a) \div (-b) ELSE CHOOSE q \in {} : q * b = a

Sign(x) == IF x > 0 THEN 1 ELSE IF x < 0 THEN -1 ELSE 0

\* Math.cos / Math.sin of an angle given in quarter turns
Cos(q) == CASE q % 4 = 0 -> 1 [] q % 4 = 1 -> 0 [] q % 4 = 2 -> -1 [] OTHER -> 0
Sin(q) == CASE q % 4 = 0 -> 0 [] q % 4 = 1 -> 1 [] q % 4 = 2 -> 0 [] OTHER -> -1

\* Math.atan2(y, x) for the axis directions, in quarter turns, range (-2, 2]
Atan2(y, x) ==
  CASE y = 0 /\ x >= 0 -> 0
    [] y > 0 /\ x = 0  -> 1
    [] y = 0 /\ x < 0  -> 2
    [] y < 0 /\ x = 0  -> -1

RECURSIVE SeqSum(_)
SeqSum(s) == IF s = <<>> THEN 0 ELSE Head(s) + SeqSum(Tail(s))

Reverse(s) == [i \in 1..Len(s) |-> s[Len(s) + 1 - i]]

RECURSIVE Flatten(_)
Flatten(ss) == IF ss = <<>> THEN <<>> ELSE Head(ss) \o Flatten(Tail(ss))

-----------------------------------------------------------------------------
(* Strings as token sequences *)

startsWith(name, prefix) == Len(name) >= 1 /\ name[1] = prefix

\* name.replace(/^prefix/, '')
stripPrefix(name, prefix) == IF startsWith(name, prefix) THEN Tail(name) ELSE name

RECURSIVE trimStart(_)
trimStart(s) == IF s # <<>> /\ Head(s) = " " THEN trimStart(Tail(s)) ELSE s

\* String.prototype.trim
trim(s) == Reverse(trimStart(Reverse(trimStart(s))))

-----------------------------------------------------------------------------
(* transforms.ts : vectors and coordinate systems *)

sub(a, b) == <<a[1] - b[1], a[2] - b[2]>>
add(a, b) == <<a[1] + b[1], a[2] + b[2]>>

rot(p, ang) ==
  LET c == Cos(ang)
      s == Sin(ang)
  IN  <<p[1] * c - p[2] * s, p[1] * s + p[2] * c>>

toGoLocal(pWorld, goPos, goRot) == rot(sub(pWorld, goPos), -goRot)

applyToPoint(m, x, y) ==
  <<m[1][1] * x + m[1][2] * y + m[1][3], m[2][1] * x + m[2][2] * y + m[2][3]>>

getRotationFromMatrix(matrix) == Atan2(matrix[1][2], matrix[1][1])

figmaWorldToLevelLocal(p, levelFrame) ==
  LET levelM == levelFrame.absoluteTransform
      levelTopLeft == <<levelM[1][3], levelM[2][3]>>
  IN  <<p[1] - levelTopLeft[1], p[2] - levelTopLeft[2]>>

\* a faulty tlToCenterYUp: the origin is moved and the Y axis is left pointing down
tlToCenterYDown(pTL, levelSize) ==
  <<pTL[1] - Quot(levelSize.width, 2), pTL[2] - Quot(levelSize.height, 2)>>

tlToCenterYUp(pTL, levelSize) ==
  <<pTL[1] - Quot(levelSize.width, 2), Quot(levelSize.height, 2) - pTL[2]>>

toRapierFromFigmaWorld(pWorld, levelFrame) ==
  LET levelSize == [width |-> levelFrame.width, height |-> levelFrame.height]
  IN  tlToCenterYUp(figmaWorldToLevelLocal(pWorld, levelFrame), levelSize)

\* 'width' in node, 'height' in node
hasSize(node) == node.sized

\* 'children' in node
hasChildren(node) == node.type \in {"FRAME", "GROUP"}

getNodeCenterInWorld(node) ==
  LET w == IF hasSize(node) THEN node.width ELSE 0
      h == IF hasSize(node) THEN node.height ELSE 0
  IN  applyToPoint(node.absoluteTransform, Quot(w, 2), Quot(h, 2))

getNodeRotation(node) == getRotationFromMatrix(node.absoluteTransform)

getPositionWithAnchorAdjustment(node, relativeTo) ==
  toRapierFromFigmaWorld(getNodeCenterInWorld(node), relativeTo)

localOffsetBetween(nodeA, nodeB, level) ==
  LET a == getPositionWithAnchorAdjustment(nodeA, level)
      b == getPositionWithAnchorAdjustment(nodeB, level)
  IN  <<a[1] - b[1], a[2] - b[2]>>

-----------------------------------------------------------------------------
(* transforms.ts (polygons part) *)

\* The shoelace sum a of areaSigned.  The code returns 0.5 * a and uses only
\* its sign; the model keeps a itself (twice the signed area) to stay integral.
areaSigned(poly) ==
  LET n == Len(poly)
      term(i) == LET p == poly[i]
                     q == poly[(i % n) + 1]
                 IN  p[1] * q[2] - q[1] * p[2]
  IN  SeqSum([i \in 1..n |-> term(i)])

\* a faulty ensureClockwise: the list is reversed whatever its winding
ensureClockwiseAlways(poly) == Reverse(poly)

ensureClockwise(poly) == IF areaSigned(poly) > 0 THEN Reverse(poly) ELSE poly

ensureCCW(poly) == IF areaSigned(poly) < 0 THEN Reverse(poly) ELSE poly

centroid(poly) ==
  LET cx == SeqSum([i \in 1..Len(poly) |-> poly[i][1]])
      cy == SeqSum([i \in 1..Len(poly) |-> poly[i][2]])
  IN  <<Quot(cx, Len(poly)), Quot(cy, Len(poly))>>

centerVertices(poly) ==
  LET c == centroid(poly)
  IN  [center |-> c,
       vertices |-> [i \in 1..Len(poly) |-> <<poly[i][1] - c[1], poly[i][2] - c[2]>>]]

\* z component of (p1 - p0) x (p2 - p1) at vertex i (1-based, cyclic)
turnAt(vertices, i) ==
  LET n == Len(vertices)
      p0 == vertices[i]
      p1 == vertices[(i % n) + 1]
      p2 == vertices[((i + 1) % n) + 1]
  IN  (p1[1] - p0[1]) * (p2[2] - p1[2]) - (p1[2] - p0[2]) * (p2[1] - p1[1])

\* the sign loop shared by isConvex and isConvexSafe: false as soon as a
\* non-negligible turn differs in sign from the first non-negligible one
RECURSIVE signsAgree(_, _, _)
signsAgree(vertices, i, sign) ==
  IF i > Len(vertices) THEN TRUE
  ELSE LET z == turnAt(vertices, i)
       IN  IF z = 0 THEN signsAgree(vertices, i + 1, sign)
           ELSE IF sign = 0 THEN signsAgree(vertices, i + 1, Sign(z))
           ELSE IF Sign(z) # sign THEN FALSE
           ELSE signsAgree(vertices, i + 1, sign)

\* transforms.ts isConvex (exact zero test)
isConvex(vertices) == signsAgree(vertices, 1, 0)

\* builders.ts isConvexSafe: |z| < 1e-6 is z = 0 on integer coordinates
isConvexSafe(vertices) == signsAgree(vertices, 1, 0)

\* The part of the ring p from index i to index j, walking forward cyclically.
ringSlice(p, i, j) ==
  LET n == Len(p)
      len == ((j - i) % n) + 1
  IN  [k \in 1..len |-> p[((i + k - 2) % n) + 1]]

\* What poly-decomp's quickDecomp can give on a counter-clockwise ring: a cut
\* along one diagonal (i, j) into two convex rings.  The library is not part of
\* the repository; any such cut stands for a successful decomposition.
quickDecompCuts(ccw) ==
  LET n == Len(ccw)
  IN  { <<ringSlice(ccw, i, j), ringSlice(ccw, j, i)>> :
          <<i, j>> \in { <<a, b>> \in (1..n) \X (1..n) :
                           /\ a < b
                           /\ b - a >= 2
                           /\ ~(a = 1 /\ b = n)
                           /\ isConvex(ringSlice(ccw, a, b))
                           /\ isConvex(ringSlice(ccw, b, a))
                           /\ areaSigned(ringSlice(ccw, a, b)) > 0
                           /\ areaSigned(ringSlice(ccw, b, a)) > 0 } }

\* The outcomes of the call decomp.quickDecomp(ccw) under library behaviour lib:
\* "throws", "empty" (no polygon returned) or "parts".
quickDecomp(ccw, lib) ==
  IF lib = "throws" THEN {[threw |-> TRUE, polys |-> <<>>]}
  ELSE IF lib = "empty" \/ quickDecompCuts(ccw) = {} THEN {[threw |-> FALSE, polys |-> <<>>]}
  ELSE {[threw |-> FALSE, polys |-> c] : c \in quickDecompCuts(ccw)}

\* decomposeIfNeeded on one outcome r of the library call.  The catch branch
\* writes to console.warn only; nothing reaches the reporter.
decomposeWith(vertices, r) ==
  IF Len(vertices) <= 3 \/ isConvex(vertices) THEN <<ensureClockwise(vertices)>>
  ELSE IF r.threw THEN <<ensureClockwise(vertices)>>
  ELSE IF Len(r.polys) = 0 THEN <<ensureClockwise(vertices)>>
  ELSE [k \in 1..Len(r.polys) |-> ensureClockwise(r.polys[k])]

\* decomposeIfNeeded: the library's answer is fixed by lib; among several
\* admissible cuts the first in TLC's order is taken.
decomposeIfNeeded(vertices, lib) ==
  decomposeWith(vertices, CHOOSE r \in quickDecomp(ensureCCW(vertices), lib) : TRUE)

-----------------------------------------------------------------------------
(* paths.ts *)
(* A path string is its token list (the result of data.match at paths.ts:135): *)
(* a letter is [c |-> "M"], a number is [n |-> 12].  The paths of the model's  *)
(* scenes are well formed and use the straight-line commands M L H V Z and     *)
(* their relative forms.                                                       *)

isLetter(tok) == "c" \in DOMAIN tok
isRelative(cmd) == cmd \in {"m", "l", "h", "v", "z", "q", "t", "c", "s", "a"}
toUpperCase(cmd) ==
  LET upper == [m |-> "M", l |-> "L", h |-> "H", v |-> "V", z |-> "Z", q |-> "Q", t |-> "T",
                c |-> "C", s |-> "S", a |-> "A"]
  IN  IF cmd \in DOMAIN upper THEN upper[cmd] ELSE cmd

NoPoint == [some |-> FALSE, p |-> <<0, 0>>]
NoActive == [isNull |-> TRUE, pts |-> <<>>]

\* Math.hypot(p[0]-q[0], p[1]-q[1]) > eps, on squares: eps2 is the square of
\* eps in the unit of the coordinates
apart(p, q, eps2) ==
  (p[1] - q[1]) * (p[1] - q[1]) + (p[2] - q[2]) * (p[2] - q[2]) > eps2

\* the loop of dedupeClose
RECURSIVE dedupeFold(_, _, _)
dedupeFold(out, pts, eps2) ==
  IF pts = <<>> THEN out
  ELSE LET p == Head(pts)
           kept == IF Len(out) = 0 THEN <<p>>
                   ELSE IF apart(p, out[Len(out)], eps2) THEN Append(out, p) ELSE out
       IN  dedupeFold(kept, Tail(pts), eps2)

\* dedupeClose for coordinates in a unit in which eps = 1e-3 has the square eps2
dedupeCloseAt(pts, eps2) ==
  LET out == dedupeFold(<<>>, pts, eps2)
  IN  IF Len(out) > 2 /\ ~apart(out[1], out[Len(out)], eps2)
      THEN SubSeq(out, 1, Len(out) - 1) ELSE out

\* dedupeClose with eps = 1e-3 on integer coordinates: two points are within
\* eps of each other exactly when they are equal
dedupeClose(pts) == dedupeCloseAt(pts, 0)

\* the closure lineTo of flattenSVGPath
lineTo(st, isRel, x, y) ==
  LET p == IF isRel THEN <<st.curr[1] + x, st.curr[2] + y>> ELSE <<x, y>>
      push == /\ ~st.active.isNull
              /\ (Len(st.active.pts) = 0 \/ p # st.active.pts[Len(st.active.pts)])
  IN  [st EXCEPT !.active = IF push THEN [isNull |-> FALSE, pts |-> Append(st.active.pts, p)] ELSE @,
                 !.curr = p,
                 !.lastC2 = NoPoint]

\* distPointToLine(p, a, b) <= tol for the tolerance tol.num / tol.den, on
\* squares: the distance is |cross| / |b - a|, and |p - a| when a = b (len2
\* is then 1e-12 and t is 0)
flatWithin(p, a, b, tol) ==
  LET A == p[1] - a[1]
      B == p[2] - a[2]
      C == b[1] - a[1]
      D == b[2] - a[2]
  IN  IF C = 0 /\ D = 0 THEN tol.den * tol.den * (A * A + B * B) <= tol.num * tol.num
      ELSE tol.den * tol.den * (A * D - B * C) * (A * D - B * C)
             <= tol.num * tol.num * (C * C + D * D)

\* flattenQuad: the points pushed to out
RECURSIVE flattenQuad(_, _, _, _, _)
flattenQuad(p0, p1, p2, opts, depth) ==
  IF flatWithin(p1, p0, p2, opts.curveTol) \/ depth >= opts.maxRecursion THEN <<p2>>
  ELSE LET mid(a, b) == <<Quot(a[1] + b[1], 2), Quot(a[2] + b[2], 2)>>
           p01 == mid(p0, p1)
           p12 == mid(p1, p2)
           p012 == mid(p01, p12)
       IN  flattenQuad(p0, p01, p012, opts, depth + 1)
             \o flattenQuad(p012, p12, p2, opts, depth + 1)

\* flattenCubic: the points pushed to out
RECURSIVE flattenCubic(_, _, _, _, _, _)
flattenCubic(p0, p1, p2, p3, opts, depth) ==
  IF (flatWithin(p1, p0, p3, opts.curveTol) /\ flatWithin(p2, p0, p3, opts.curveTol))
     \/ depth >= opts.maxRecursion
  THEN <<p3>>
  ELSE LET mid(a, b) == <<Quot(a[1] + b[1], 2), Quot(a[2] + b[2], 2)>>
           p01 == mid(p0, p1)
           p12 == mid(p1, p2)
           p23 == mid(p2, p3)
           p012 == mid(p01, p12)
           p123 == mid(p12, p23)
           p0123 == mid(p012, p123)
       IN  flattenCubic(p0, p01, p012, p0123, opts, depth + 1)
             \o flattenCubic(p0123, p123, p23, p3, opts, depth + 1)

\* one parameter group of a repeated command (the body of its while loop).
\* An arc is flattened here only when one of its radii is 0 (flattenArc then
\* pushes the end point alone).  st.segs is the history of the segments read:
\* the kind, the point it starts from, the control point a smooth command
\* infers, and lastC2 and the current point as the segment leaves them.
pathGroup(st, parts, C, isRel) ==
  LET i == st.i
      N(k) == parts[i + k].n
      at(x, y) == IF isRel THEN <<st.curr[1] + x, st.curr[2] + y>> ELSE <<x, y>>
      inferred == IF st.lastC2.some
                  THEN <<2 * st.curr[1] - st.lastC2.p[1], 2 * st.curr[2] - st.lastC2.p[2]>>
                  ELSE st.curr
      curve(used, out, p, c) ==
        [st EXCEPT !.i = i + used,
                   !.active = IF @.isNull THEN @ ELSE [isNull |-> FALSE, pts |-> @.pts \o out],
                   !.curr = p,
                   !.lastC2 = c]
      s1 == CASE C \in {"M", "L"} -> [lineTo(st, isRel, N(0), N(1)) EXCEPT !.i = i + 2]
              [] C = "H" ->
                   LET x == N(0)
                       nx == IF isRel THEN st.curr[1] + x ELSE x
                       s0 == lineTo(st, isRel, nx - (IF isRel THEN st.curr[1] ELSE 0), 0)
                   IN  [s0 EXCEPT !.i = i + 1, !.curr = <<nx, s0.curr[2]>>]
              [] C = "V" ->
                   LET y == N(0)
                       ny == IF isRel THEN st.curr[2] + y ELSE y
                       s0 == lineTo(st, isRel, 0, ny - (IF isRel THEN st.curr[2] ELSE 0))
                   IN  [s0 EXCEPT !.i = i + 1, !.curr = <<s0.curr[1], ny>>]
              [] C = "Q" ->
                   curve(4, flattenQuad(st.curr, at(N(0), N(1)), at(N(2), N(3)), st.opts, 0),
                         at(N(2), N(3)), [some |-> TRUE, p |-> at(N(0), N(1))])
              [] C = "T" ->
                   curve(2, flattenQuad(st.curr, inferred, at(N(0), N(1)), st.opts, 0),
                         at(N(0), N(1)), [some |-> TRUE, p |-> inferred])
              [] C = "C" ->
                   curve(6, flattenCubic(st.curr, at(N(0), N(1)), at(N(2), N(3)),
                                         at(N(4), N(5)), st.opts, 0),
                         at(N(4), N(5)), [some |-> TRUE, p |-> at(N(2), N(3))])
              [] C = "S" ->
                   curve(4, flattenCubic(st.curr, inferred, at(N(0), N(1)), at(N(2), N(3)),
                                         st.opts, 0),
                         at(N(2), N(3)), [some |-> TRUE, p |-> at(N(0), N(1))])
              [] C = "A" /\ (N(0) = 0 \/ N(1) = 0) ->
                   curve(7, <<at(N(5), N(6))>>, at(N(5), N(6)), NoPoint)
  IN  [s1 EXCEPT !.segs = Append(@, [kind |-> IF C = "M" THEN "L" ELSE C, from |-> st.curr,
                                     c1 |-> inferred, lastC2 |-> s1.lastC2, to |-> s1.curr])]

RECURSIVE pathGroups(_, _, _, _)
pathGroups(st, parts, C, isRel) ==
  IF st.i <= Len(parts) /\ ~isLetter(parts[st.i])
  THEN pathGroups(pathGroup(st, parts, C, isRel), parts, C, isRel)
  ELSE st

\* a faulty emission: the contour left by a move or by the end is marked closed
emitActiveClosed(st) ==
  IF ~st.active.isNull /\ Len(st.active.pts) > 0
  THEN Append(st.contours, [pts |-> st.active.pts, closed |-> TRUE])
  ELSE st.contours

\* if (active && active.length) contours.push({ pts: active, closed: false }):
\* the statement of case 'M' and of the end of the input
emitActive(st) ==
  IF ~st.active.isNull /\ Len(st.active.pts) > 0
  THEN Append(st.contours, [pts |-> st.active.pts, closed |-> FALSE])
  ELSE st.contours

\* a faulty case 'Z': the contour is pushed and stays the active one
closePathKeepingActive(st) ==
  [st EXCEPT !.contours = IF st.active.isNull THEN @
                          ELSE Append(@, [pts |-> st.active.pts, closed |-> TRUE]),
             !.curr = st.start,
             !.lastC2 = NoPoint,
             !.segs = Append(@, [kind |-> "Z", from |-> st.curr, c1 |-> st.curr,
                                 lastC2 |-> NoPoint, to |-> st.start])]

\* case 'Z'
closePath(st) ==
  LET a == st.active.pts
      pts == IF Len(a) > 0 /\ a[1] # a[Len(a)] THEN Append(a, a[1]) ELSE a
  IN  [st EXCEPT !.contours = IF st.active.isNull THEN @
                              ELSE Append(@, [pts |-> pts, closed |-> TRUE]),
                 !.active = IF st.active.isNull THEN @ ELSE NoActive,
                 !.curr = st.start,
                 !.lastC2 = NoPoint,
                 !.segs = Append(@, [kind |-> "Z", from |-> st.curr, c1 |-> st.curr,
                                     lastC2 |-> NoPoint, to |-> st.start])]

\* one command of the switch, st.i standing just after the command letter
pathCommand(st, parts, cmd) ==
  LET isRel == isRelative(cmd)
      C == toUpperCase(cmd)
      i == st.i
  IN  CASE C = "M" ->
             LET x == parts[i].n
                 y == parts[i + 1].n
                 curr == IF isRel THEN <<st.curr[1] + x, st.curr[2] + y>> ELSE <<x, y>>
                 s1 == [st EXCEPT !.i = i + 2,
                                  !.curr = curr,
                                  !.start = curr,
                                  !.contours = emitActive(st),
                                  !.active = [isNull |-> FALSE, pts |-> <<curr>>],
                                  !.segs = Append(@, [kind |-> "M", from |-> st.curr,
                                                      c1 |-> st.curr, lastC2 |-> st.lastC2,
                                                      to |-> curr])]
             IN  pathGroups(s1, parts, "M", isRel)
        [] C \in {"L", "H", "V", "Q", "T", "C", "S", "A"} -> pathGroups(st, parts, C, isRel)
        [] C = "Z" -> closePath(st)
        [] OTHER -> st

\* one turn of the for loop over parts
pathTurn(st, parts) ==
  IF isLetter(parts[st.i]) THEN pathCommand([st EXCEPT !.i = @ + 1], parts, parts[st.i].c)
  ELSE [st EXCEPT !.i = @ + 1]

RECURSIVE pathLoop(_, _)
pathLoop(st, parts) ==
  IF st.i > Len(parts) THEN st ELSE pathLoop(pathTurn(st, parts), parts)

\* contours.map(c => ({ pts: dedupeClose(c.pts), closed: c.closed }))
dedupeContours(contours, eps2) ==
  [k \in 1..Len(contours) |->
     [pts |-> dedupeCloseAt(contours[k].pts, eps2), closed |-> contours[k].closed]]

\* the locals of flattenSVGPath before its loop, the options destructured
\* (curveTol as a fraction; DEFAULT_OPTS has 0.75 and maxRecursion 10)
pathStart(opts) ==
  [i |-> 1, curr |-> <<0, 0>>, start |-> <<0, 0>>, lastC2 |-> NoPoint, active |-> NoActive,
   contours |-> <<>>, segs |-> <<>>, opts |-> opts]

flattenSVGPath(data) ==
  dedupeContours(emitActive(pathLoop(
    pathStart([curveTol |-> [num |-> 3, den |-> 4], maxRecursion |-> 10]), data)), 0)

\* areaOfBBox of getWorldPolygonVertices
areaOfBBox(pts) ==
  LET xs == {pts[k][1] : k \in 1..Len(pts)}
      ys == {pts[k][2] : k \in 1..Len(pts)}
      minX == CHOOSE v \in xs : \A u \in xs : v <= u
      maxX == CHOOSE v \in xs : \A u \in xs : v >= u
      minY == CHOOSE v \in ys : \A u \in ys : v <= u
      maxY == CHOOSE v \in ys : \A u \in ys : v >= u
  IN  (maxX - minX) * (maxY - minY)

\* the index of the element that a stable descending sort by the keys puts
\* first: the first one whose key is the largest, looked for from the k-th
\* key on, best being the index found so far (2 and 1 at the start)
RECURSIVE firstMaxFrom(_, _, _)
firstMaxFrom(keys, k, best) ==
  IF k > Len(keys) THEN best
  ELSE firstMaxFrom(keys, k + 1, IF keys[k] > keys[best] THEN k ELSE best)

Ok(val) == [ok |-> TRUE, val |-> val, err |-> <<>>]
Fail(err) == [ok |-> FALSE, val |-> <<>>, err |-> err]

\* the contours mapped to the world (Figma top-left, Y down)
toWorldContours(m, contours) ==
  [k \in 1..Len(contours) |->
     [closed |-> contours[k].closed,
      pts |-> [j \in 1..Len(contours[k].pts) |->
                 applyToPoint(m, contours[k].pts[j][1], contours[k].pts[j][2])]]]

\* the largest closed contour if there is a closed one, else the longest contour
pickContour(worldContours, closed) ==
  IF Len(closed) > 0
  THEN dedupeClose(closed[firstMaxFrom([k \in 1..Len(closed) |-> areaOfBBox(closed[k].pts)],
                                       2, 1)].pts)
  ELSE dedupeClose(worldContours[firstMaxFrom([k \in 1..Len(worldContours) |->
                                                 Len(worldContours[k].pts)], 2, 1)].pts)

\* a faulty selection: every closed contour is preferred, whatever its length
selectContourAnyClosed(worldContours) ==
  pickContour(worldContours, SelectSeq(worldContours, LAMBDA c : c.closed))

selectContour(worldContours) ==
  pickContour(worldContours, SelectSeq(worldContours, LAMBDA c : c.closed /\ Len(c.pts) >= 3))

vectorVertices(m, contours) ==
  IF Len(contours) = 0 THEN <<>> ELSE selectContour(toWorldContours(m, contours))

\* getWorldPolygonVertices; Fail when it throws.  The model's VECTOR nodes
\* carry vectorPaths, no other node type does.  Of an ELLIPSE the model
\* keeps the vertices at t = 0, PI/2, PI, 3PI/2, which the code emits whenever
\* segs is a multiple of 4 (segs = 12 for radii up to 22, and the ellipses of
\* the scenes have radius 16); the vertices between them are irrational and
\* are left out: they lie inside the box of the four, which is all that
\* computeRigidBodyCenter reads of them.
getWorldPolygonVertices(node) ==
  IF Len(node.vectorPaths) > 0 THEN
    Ok(vectorVertices(node.absoluteTransform,
         Flatten([k \in 1..Len(node.vectorPaths) |-> flattenSVGPath(node.vectorPaths[k])])))
  ELSE IF node.type \in {"RECTANGLE", "FRAME", "GROUP"} THEN
    Ok(<<applyToPoint(node.absoluteTransform, 0, 0),
         applyToPoint(node.absoluteTransform, node.width, 0),
         applyToPoint(node.absoluteTransform, node.width, node.height),
         applyToPoint(node.absoluteTransform, 0, node.height)>>)
  ELSE IF node.type = "ELLIPSE" THEN
    Ok(dedupeClose([k \in 1..4 |->
         applyToPoint(node.absoluteTransform,
                      Quot(node.width, 2) + Quot(node.width, 2) * Cos(k - 1),
                      Quot(node.height, 2) + Quot(node.height, 2) * Sin(k - 1))]))
  ELSE Fail(<<"Unsupported vector source for node type ", node.type>>)

-----------------------------------------------------------------------------
(* transforms.ts (simplification part) *)
(* Distances are kept exact: a distance is the fraction num / den of its    *)
(* square, and epsilon is counted in halves (the default 1.5 is 3 halves).  *)

\* perpendicularDistance(p, a, b), squared: |p - a|^2 when a = b, else
\* cross(b - a, p - a)^2 / |b - a|^2
perpendicularDistance(p, a, b) ==
  LET dx == b[1] - a[1]
      dy == b[2] - a[2]
      cross == dx * (p[2] - a[2]) - dy * (p[1] - a[1])
  IN  IF dx = 0 /\ dy = 0
      THEN [num |-> (p[1] - a[1]) * (p[1] - a[1]) + (p[2] - a[2]) * (p[2] - a[2]), den |-> 1]
      ELSE [num |-> cross * cross, den |-> dx * dx + dy * dy]

\* rdp: index is the first inner point farthest from the chord (d > maxDist
\* is strict); the distances of one call have the same denominator
RECURSIVE rdp(_, _)
rdp(points, epsHalves) ==
  IF Len(points) <= 2 THEN points
  ELSE LET n == Len(points)
           d == [i \in 1..(n - 2) |-> perpendicularDistance(points[i + 1], points[1], points[n])]
           index == firstMaxFrom([i \in 1..(n - 2) |-> d[i].num], 2, 1) + 1
           maxDist == d[index - 1]
       IN  IF 4 * maxDist.num > epsHalves * epsHalves * maxDist.den
           THEN LET left == rdp(SubSeq(points, 1, index), epsHalves)
                    right == rdp(SubSeq(points, index, n), epsHalves)
                IN  SubSeq(left, 1, Len(left) - 1) \o right
           ELSE <<points[1], points[n]>>

\* a faulty simplifyPolygonRDPClosed: what rdp leaves is returned as it is
simplifyPolygonRDPClosedUnguarded(points, epsHalves) ==
  IF Len(points) <= 3 THEN points
  ELSE rdp(IF points[1] = points[Len(points)] THEN SubSeq(points, 1, Len(points) - 1)
           ELSE points, epsHalves)

simplifyPolygonRDPClosed(points, epsHalves) ==
  IF Len(points) <= 3 THEN points
  ELSE LET ring == IF points[1] = points[Len(points)]
                   THEN SubSeq(points, 1, Len(points) - 1) ELSE points
           simplified == rdp(ring, epsHalves)
       IN  IF Len(simplified) < 3 THEN SubSeq(ring, 1, 3) ELSE simplified

\* a faulty simplifyPolygon: the budget is not looked at
simplifyPolygonUncapped(vertices, opts) ==
  ensureClockwise(simplifyPolygonRDPClosed(ensureClockwise(vertices),
                                           IF ~opts.hasEpsilon THEN 3
                                           ELSE IF opts.epsilon < 0 THEN 0 ELSE opts.epsilon))

\* simplifyPolygon(vertices, opts): opts.epsilon in halves, opts.maxPoints a
\* whole number, each of them possibly missing.  Math.floor(i * step) with
\* step = simp.length / keep is the whole part of i * simp.length / keep.
simplifyPolygon(vertices, opts) ==
  LET eps == IF ~opts.hasEpsilon THEN 3 ELSE IF opts.epsilon < 0 THEN 0 ELSE opts.epsilon
      simp == simplifyPolygonRDPClosed(ensureClockwise(vertices), eps)
      keep == IF opts.maxPoints > 3 THEN opts.maxPoints ELSE 3
  IN  IF opts.hasMaxPoints /\ Len(simp) > opts.maxPoints
      THEN ensureClockwise([i \in 1..keep |-> simp[((i - 1) * Len(simp)) \div keep + 1]])
      ELSE ensureClockwise(simp)

-----------------------------------------------------------------------------
(* earcut, as called by triangulateConcave *)
(* The library is not part of the repository.  The model is its main loop:  *)
(* the ring is walked from the last inserted node and the first corner that *)
(* is an ear is clipped; the fallback passes that the library runs when no  *)
(* ear is left (collinear or self-intersecting input) are not modelled, and *)
(* the triangles found so far are returned.                                  *)

earcutSignedArea(pts) ==
  LET n == Len(pts)
      term(i) == LET j == IF i = 1 THEN n ELSE i - 1
                 IN  (pts[j][1] - pts[i][1]) * (pts[i][2] + pts[j][2])
  IN  SeqSum([i \in 1..n |-> term(i)])

earArea(p, q, r) == (q[2] - p[2]) * (r[1] - q[1]) - (q[1] - p[1]) * (r[2] - q[2])

pointInTriangle(a, b, c, p) ==
  /\ (c[1] - p[1]) * (a[2] - p[2]) >= (a[1] - p[1]) * (c[2] - p[2])
  /\ (a[1] - p[1]) * (b[2] - p[2]) >= (b[1] - p[1]) * (a[2] - p[2])
  /\ (b[1] - p[1]) * (c[2] - p[2]) >= (c[1] - p[1]) * (b[2] - p[2])

\* ring: the linked list as the sequence of 0-based vertex indices; k: position of the ear
ringPrev(ring, k) == IF k = 1 THEN Len(ring) ELSE k - 1
ringNext(ring, k) == IF k = Len(ring) THEN 1 ELSE k + 1

isEar(pts, ring, k) ==
  LET P(j) == pts[ring[j] + 1]
      a == P(ringPrev(ring, k))
      b == P(k)
      c == P(ringNext(ring, k))
  IN  /\ earArea(a, b, c) < 0
      /\ \A j \in 1..Len(ring) :
           j \in {k, ringPrev(ring, k), ringNext(ring, k)} \/
           ~(/\ pointInTriangle(a, b, c, P(j))
             /\ earArea(P(ringPrev(ring, j)), P(j), P(ringNext(ring, j))) >= 0)

RECURSIVE earcutLinked(_, _, _, _, _)
earcutLinked(pts, ring, k, stop, triangles) ==
  IF Len(ring) < 3 THEN triangles
  ELSE IF isEar(pts, ring, k)
  THEN LET tri == <<ring[ringPrev(ring, k)], ring[k], ring[ringNext(ring, k)]>>
           nextV == ring[ringNext(ring, k)]
           ring2 == SelectSeq(ring, LAMBDA v : v # ring[k])
           kNext == CHOOSE j \in 1..Len(ring2) : ring2[j] = nextV
           kNew == ringNext(ring2, kNext)
       IN  IF Len(ring2) < 3 THEN triangles \o tri
           ELSE earcutLinked(pts, ring2, kNew, ring2[kNew], triangles \o tri)
  ELSE LET kNew == ringNext(ring, k)
       IN  IF ring[kNew] = stop THEN triangles
           ELSE earcutLinked(pts, ring, kNew, stop, triangles)

\* earcut(data) on the point list pts (the flat array two by two)
earcut(pts) ==
  LET n == Len(pts)
      order == IF earcutSignedArea(pts) > 0 THEN [i \in 1..n |-> i - 1]
               ELSE [i \in 1..n |-> n - i]
      ring == IF n > 1 /\ pts[order[n] + 1] = pts[order[1] + 1]
              THEN SubSeq(order, 1, n - 1) ELSE order
  IN  IF Len(ring) < 3 THEN <<>>
      ELSE earcutLinked(pts, ring, Len(ring), ring[Len(ring)], <<>>)

\* triangulateConcave: the indices are those earcut gives for the reversed,
\* y-negated list, returned next to the list in its original order
triangulateConcave(vertices) ==
  LET vCCW_Ydown == [i \in 1..Len(vertices) |->
                       <<Reverse(vertices)[i][1], -Reverse(vertices)[i][2]>>]
  IN  [vertices |-> vertices, indices |-> earcut(vCCW_Ydown)]

-----------------------------------------------------------------------------
(* reporter.ts *)
(* env holds the reporter of the run (warnings, stats) and the messages      *)
(* posted to the UI so far (figma.ui.postMessage appends to env.ui).         *)

makeReporter ==
  [warnings |-> <<>>, stats |-> [levels |-> 0, gameObjects |-> 0, colliders |-> <<>>]]

postMessage(ui, m) == Append(ui, m)

\* a faulty warn: the message is recorded and never forwarded to the UI
warnUnposted(env, msg) == [env EXCEPT !.warnings = Append(@, msg)]

\* reporter.warn
warn(env, msg) ==
  [env EXCEPT !.warnings = Append(@, msg),
              !.ui = postMessage(@, [type |-> "warn", text |-> msg])]

\* stats.colliders[kind], 0 when the key is absent
colliderCount(colliders, kind) ==
  IF kind \in DOMAIN colliders THEN colliders[kind] ELSE 0

\* reporter.bump
bump(env, kind) ==
  [env EXCEPT !.stats.colliders =
     [k \in (DOMAIN @) \cup {kind} |-> IF k = kind THEN colliderCount(@, kind) + 1 ELSE @[k]]]

-----------------------------------------------------------------------------
(* builders.ts *)

Null == [type |-> "null"]

Ret(env, val) == [ok |-> TRUE, env |-> env, val |-> val, err |-> <<>>]
Throw(env, err) == [ok |-> FALSE, env |-> env, val |-> Null, err |-> err]

\* n.name.trim().startsWith('Collider:')
isColliderNameTrimmed(node) == startsWith(trim(node.name), "Collider:")

\* /^Collider:\s*Compound\b/.test(n.name)
isCompoundName(name) ==
  /\ startsWith(name, "Collider:")
  /\ LET rest == trimStart(Tail(name))
     IN  rest # <<>> /\ Head(rest) = "Compound"

findBodyType(go) ==
  LET hits == SelectSeq(go.children, LAMBDA n :
                /\ n.type = "TEXT"
                /\ startsWith(n.name, "BodyType:")
                /\ trim(stripPrefix(n.name, "BodyType:"))
                     \in {<<"Static">>, <<"Dynamic">>, <<"Kinematic">>})
  IN  IF Len(hits) = 0 THEN "null" ELSE trim(stripPrefix(hits[1].name, "BodyType:"))[1]

\* index of the first ":" token of rest, 0 if none (rest.indexOf(':') + 1)
RECURSIVE indexOfColon(_, _)
indexOfColon(rest, k) ==
  IF k > Len(rest) THEN 0 ELSE IF rest[k] = ":" THEN k ELSE indexOfColon(rest, k + 1)

RECURSIVE customParamsFrom(_, _)
customParamsFrom(children, params) ==
  IF children = <<>> THEN params
  ELSE LET n == Head(children)
           rest == trim(stripPrefix(n.name, "CustomParam:"))
           idx == indexOfColon(rest, 1)
           key == trim(SubSeq(rest, 1, idx - 1))
           value == trim(SubSeq(rest, idx + 1, Len(rest)))
       IN  IF n.type = "TEXT" /\ startsWith(n.name, "CustomParam:") /\ idx > 1
           THEN customParamsFrom(Tail(children),
                  [k \in (DOMAIN params) \cup {key} |-> IF k = key THEN value ELSE params[k]])
           ELSE customParamsFrom(Tail(children), params)

findCustomParams(go) == customParamsFrom(go.children, <<>>)

RECURSIVE collectColliderDescendants(_)
collectColliderDescendants(root) ==
  IF hasChildren(root)
  THEN Flatten([k \in 1..Len(root.children) |->
         (IF isColliderNameTrimmed(root.children[k]) THEN <<root.children[k]>> ELSE <<>>)
           \o collectColliderDescendants(root.children[k])])
  ELSE <<>>

colliderLeafNodes(root) ==
  SelectSeq(collectColliderDescendants(root), LAMBDA n : ~isCompoundName(n.name))

\* pts.push(...worldVertsTL.map(p => toRapierFromFigmaWorld(p, level)))
pushWorldPoints(w, rest, level) ==
  IF ~w.ok THEN w
  ELSE IF ~rest.ok THEN rest
  ELSE Ok([k \in 1..Len(w.val) |-> toRapierFromFigmaWorld(w.val[k], level)] \o rest.val)

\* colliderWorldPointsRapier; Fail when getWorldPolygonVertices throws
RECURSIVE colliderWorldPointsRapier(_, _)
colliderWorldPointsRapier(nodes, level) ==
  IF nodes = <<>> THEN Ok(<<>>)
  ELSE pushWorldPoints(getWorldPolygonVertices(Head(nodes)),
                       colliderWorldPointsRapier(Tail(nodes), level), level)

\* a faulty aabbCenter: the mean of the points in place of the middle of their box
aabbCenterAsMean(points) ==
  <<SeqSum([k \in 1..Len(points) |-> points[k][1]]) \div Len(points),
    SeqSum([k \in 1..Len(points) |-> points[k][2]]) \div Len(points)>>

aabbCenter(points) ==
  LET xs == {points[k][1] : k \in 1..Len(points)}
      ys == {points[k][2] : k \in 1..Len(points)}
      minX == CHOOSE v \in xs : \A u \in xs : v <= u
      maxX == CHOOSE v \in xs : \A u \in xs : v >= u
      minY == CHOOSE v \in ys : \A u \in ys : v <= u
      maxY == CHOOSE v \in ys : \A u \in ys : v >= u
  IN  <<Quot(minX + maxX, 2), Quot(minY + maxY, 2)>>

\* the leaves of the direct colliders, each Compound replaced by its leaves
colliderLeaves(directColliders) ==
  Flatten([k \in 1..Len(directColliders) |->
    IF isCompoundName(directColliders[k].name)
    THEN colliderLeafNodes(directColliders[k])
    ELSE <<directColliders[k]>>])

centerOfPoints(go, level, pts) ==
  IF ~pts.ok THEN pts
  ELSE IF Len(pts.val) = 0 THEN Ok(getPositionWithAnchorAdjustment(go, level))
  ELSE Ok(aabbCenter(pts.val))

centerOfColliders(go, level, directColliders) ==
  IF Len(directColliders) = 0 THEN Ok(getPositionWithAnchorAdjustment(go, level))
  ELSE centerOfPoints(go, level, colliderWorldPointsRapier(colliderLeaves(directColliders), level))

\* computeRigidBodyCenter; Fail when a leaf has no vertex source
computeRigidBodyCenter(go, level) ==
  centerOfColliders(go, level, SelectSeq(go.children, isColliderNameTrimmed))

localOffsetToAnchor(node, anchorRapier, level) ==
  LET c == getPositionWithAnchorAdjustment(node, level)
  IN  <<c[1] - anchorRapier[1], c[2] - anchorRapier[2]>>


\* node.name.replace(/^Collider:/, '').trim()
colliderType(node) == trim(stripPrefix(node.name, "Collider:"))

\* .filter(Boolean) over a built list: a null element is dropped
consBuilt(first, rest) ==
  IF ~rest.ok THEN rest
  ELSE Ret(rest.env, (IF first.val = Null THEN <<>> ELSE <<first.val>>) \o rest.val)

\* { type: 'Trimesh', position, rotation, triangles: { vertices, indices } }
trimeshOf(position, rotation, vertices) ==
  [type |-> "Trimesh", position |-> position, rotation |-> rotation,
   triangles |-> [vertices |-> vertices, indices |-> triangulateConcave(vertices).indices]]

\* the Convex, Trimesh and Polyline cases of buildChildRelativeToParent
childPolygon(type, position, rotation, vertsRapier) ==
  CASE type = <<"Convex">> ->
         [type |-> "ConvexHull", position |-> position, rotation |-> rotation,
          vertices |-> centerVertices(ensureClockwise(vertsRapier)).vertices]
    [] type = <<"Trimesh">> ->
         trimeshOf(position, rotation, centerVertices(ensureClockwise(vertsRapier)).vertices)
    [] type = <<"Polyline">> ->
         [type |-> "Polyline", position |-> position, rotation |-> rotation,
          vertices |-> centerVertices(vertsRapier).vertices]

childFromWorld(type, position, rotation, env, level, world) ==
  IF ~world.ok THEN Throw(env, world.err)
  ELSE Ret(env, childPolygon(type, position, rotation,
                \* worldVertsTL.map(p => toRapierFromFigmaWorld(p, level))
                [k \in 1..Len(world.val) |-> toRapierFromFigmaWorld(world.val[k], level)]))

\* { type: 'Compound', position, rotation, children: nestedChildren }
nestedCompound(position, rotation, nested) ==
  IF ~nested.ok THEN nested
  ELSE Ret(nested.env, [type |-> "Compound", position |-> position,
                        rotation |-> rotation, children |-> nested.val])

\* Builds ColliderData relative to the parent node (for Compound children).
\* buildChildren is the .map(...).filter(Boolean) over the descendants; a
\* throw leaves the map at once.
RECURSIVE buildChildRelativeToParent(_, _, _, _)
RECURSIVE buildChildren(_, _, _, _)
thenChildren(first, nodes, parent, level) ==
  IF ~first.ok THEN first
  ELSE consBuilt(first, buildChildren(nodes, parent, level, first.env))

buildChildren(nodes, parent, level, env) ==
  IF nodes = <<>> THEN Ret(env, <<>>)
  ELSE thenChildren(buildChildRelativeToParent(Head(nodes), parent, level, env),
                    Tail(nodes), parent, level)

\* the switch (type) of buildChildRelativeToParent; SimplifiedConvex is not a
\* case of it, so it is unsupported here
childCollider(type, child, level, env, position, rotation) ==
  CASE type = <<"Cuboid">> ->
         IF ~hasSize(child) THEN Ret(warn(env, child.name \o <<" missing width/height.">>), Null)
         ELSE Ret(env, [type |-> "Cuboid", position |-> position, rotation |-> rotation,
                        size |-> <<child.width, child.height>>])
    [] type = <<"Ball">> ->
         IF ~hasSize(child) THEN Ret(warn(env, child.name \o <<" missing width/height.">>), Null)
         ELSE Ret(env, [type |-> "Ball", position |-> position, rotation |-> rotation,
                        radius |-> Quot(child.width + child.height, 4)])
    [] type \in {<<"Convex">>, <<"Trimesh">>, <<"Polyline">>} ->
         childFromWorld(type, position, rotation, env, level, getWorldPolygonVertices(child))
    [] type = <<"Compound">> ->
         nestedCompound(position, rotation,
                        buildChildren(collectColliderDescendants(child), child, level, env))
    [] OTHER -> Ret(warn(env, <<"Unsupported collider type: ">> \o type), Null)

\* a faulty buildChildRelativeToParent: the child keeps its world rotation
buildChildWorldRotation(child, parent, level, env) ==
  IF ~isColliderNameTrimmed(child) THEN Ret(env, Null)
  ELSE childCollider(colliderType(child), child, level, env,
                     localOffsetBetween(child, parent, level), getNodeRotation(child))

buildChildRelativeToParent(child, parent, level, env) ==
  IF ~isColliderNameTrimmed(child) THEN Ret(env, Null)
  ELSE childCollider(colliderType(child), child, level, env,
                     localOffsetBetween(child, parent, level),
                     getNodeRotation(child) - getNodeRotation(parent))

\* parts.map(part => { ...centerVertices(part)... ConvexHull ... })
hullOf(cPart) ==
  [type |-> "ConvexHull", position |-> cPart.center, rotation |-> 0,
   vertices |-> ensureClockwise(cPart.vertices)]

hullsOf(parts) == [k \in 1..Len(parts) |-> hullOf(centerVertices(parts[k]))]

\* the Convex case of buildSingleCollider after the vertices are in the
\* rigid-body frame: a hull, or a Compound of the hulls of the decomposition
convexOrCompound(cv, env, lib) ==
  IF ~isConvexSafe(cv.vertices) /\ Len(cv.vertices) > 3
  THEN Ret(bump(env, "Compound"),
           [type |-> "Compound", position |-> cv.center, rotation |-> 0,
            children |-> hullsOf(decomposeIfNeeded(cv.vertices, lib))])
  ELSE Ret(bump(env, "ConvexHull"),
           [type |-> "ConvexHull", position |-> cv.center, rotation |-> 0,
            vertices |-> cv.vertices])

\* the Trimesh case of buildSingleCollider
trimeshAt(cv, env) == Ret(bump(env, "Trimesh"), trimeshOf(cv.center, 0, cv.vertices))

\* the Polyline case of buildSingleCollider
polylineAt(cv, env) ==
  Ret(bump(env, "Polyline"),
      [type |-> "Polyline", position |-> cv.center, rotation |-> 0, vertices |-> cv.vertices])

polygonCollider(type, env, lib, vertsRBLocal) ==
  CASE type = <<"Convex">> ->
         convexOrCompound(centerVertices(ensureClockwise(vertsRBLocal)), env, lib)
    [] type = <<"Trimesh">> -> trimeshAt(centerVertices(ensureClockwise(vertsRBLocal)), env)
    [] type = <<"Polyline">> -> polylineAt(centerVertices(vertsRBLocal), env)

\* vertsRapierWorld.map(v => toGoLocal(v, anchor, goRot))
vertsRBLocalOf(worldVertsTL, go, level, anchor) ==
  [k \in 1..Len(worldVertsTL) |->
     toGoLocal(toRapierFromFigmaWorld(worldVertsTL[k], level), anchor, getNodeRotation(go))]

colliderFromWorld(type, go, level, env, anchor, lib, world) ==
  IF ~world.ok THEN Throw(env, world.err)
  ELSE polygonCollider(type, env, lib, vertsRBLocalOf(world.val, go, level, anchor))

compoundAround(node, go, level, anchor, children) ==
  IF ~children.ok THEN children
  ELSE Ret(bump(children.env, "Compound"),
           [type |-> "Compound",
            position |-> localOffsetToAnchor(node, anchor, level),
            rotation |-> getNodeRotation(node) - getNodeRotation(go),
            children |-> children.val])

\* the Compound case of buildSingleCollider on a node with children
compoundCollider(node, go, level, env, anchor, colliderDescendants) ==
  compoundAround(node, go, level, anchor,
    buildChildren(colliderDescendants, node, level,
      IF Len(colliderDescendants) = 0
      THEN warn(env, node.name \o <<" has no Collider:* descendants.">>)
      ELSE env))

\* the switch (type) of buildSingleCollider.  The SimplifiedConvex case is
\* not modelled: no arm matches it.
singleCollider(type, node, go, level, env, anchor, lib, localRot) ==
  CASE type = <<"Cuboid">> ->
         IF ~hasSize(node) THEN Ret(warn(env, node.name \o <<" missing width/height.">>), Null)
         ELSE Ret(bump(env, "Cuboid"),
                  [type |-> "Cuboid", position |-> localOffsetToAnchor(node, anchor, level),
                   rotation |-> localRot, size |-> <<node.width, node.height>>])
    [] type = <<"Ball">> ->
         IF ~hasSize(node) THEN Ret(warn(env, node.name \o <<" missing width/height.">>), Null)
         ELSE Ret(bump(env, "Ball"),
                  [type |-> "Ball", position |-> localOffsetToAnchor(node, anchor, level),
                   rotation |-> localRot, radius |-> Quot(node.width + node.height, 4)])
    [] type \in {<<"Convex">>, <<"Trimesh">>, <<"Polyline">>} ->
         colliderFromWorld(type, go, level, env, anchor, lib, getWorldPolygonVertices(node))
    [] type = <<"Compound">> ->
         IF ~hasChildren(node)
         THEN Ret(warn(env, <<"Compound collider must be Group/Frame.">>), Null)
         ELSE compoundCollider(node, go, level, env, anchor, collectColliderDescendants(node))
    [] type # <<"SimplifiedConvex">> ->
         Ret(warn(env, <<"Unsupported collider type: ">> \o type), Null)

buildSingleCollider(node, go, level, env, anchor, lib) ==
  IF ~startsWith(node.name, "Collider:") THEN Ret(env, Null)
  ELSE singleCollider(colliderType(node), node, go, level, env, anchor, lib,
                      getNodeRotation(node) - getNodeRotation(go))

\* colliders.map(n => buildSingleCollider(...)).filter(Boolean)
RECURSIVE buildSingleColliders(_, _, _, _, _, _)
thenSingleColliders(first, nodes, go, level, anchor, lib) ==
  IF ~first.ok THEN first
  ELSE consBuilt(first, buildSingleColliders(nodes, go, level, first.env, anchor, lib))

buildSingleColliders(nodes, go, level, env, anchor, lib) ==
  IF nodes = <<>> THEN Ret(env, <<>>)
  ELSE thenSingleColliders(buildSingleCollider(Head(nodes), go, level, env, anchor, lib),
                           Tail(nodes), go, level, anchor, lib)

\* a faulty wrapInCompound: the wrapping Compound is not counted
wrapUncounted(children) ==
  IF ~children.ok THEN children
  ELSE Ret(children.env,
           [type |-> "Compound", position |-> <<0, 0>>, rotation |-> 0,
            children |-> children.val])

\* several Collider:* nodes are wrapped in a Compound
wrapInCompound(children) ==
  IF ~children.ok THEN children
  ELSE Ret(bump(children.env, "Compound"),
           [type |-> "Compound", position |-> <<0, 0>>, rotation |-> 0,
            children |-> children.val])

collidersOf(colliders, go, level, env, anchor, lib) ==
  IF Len(colliders) = 0
  THEN Ret(warn(env, <<"GameObject ">> \o go.name \o <<" has no Collider:* node.">>), Null)
  ELSE IF Len(colliders) > 1
  THEN wrapInCompound(buildSingleColliders(colliders, go, level, env, anchor, lib))
  ELSE buildSingleCollider(colliders[1], go, level, env, anchor, lib)

buildCollider(go, level, env, anchor, lib) ==
  collidersOf(SelectSeq(go.children, LAMBDA n : startsWith(n.name, "Collider:")),
              go, level, env, anchor, lib)

\* return { name, position: rbCenter, rotation, collider, bodyType, customParams }
gameObjectData(go, rbCenter, collider) ==
  IF ~collider.ok THEN collider
  ELSE Ret(collider.env,
           [name |-> trim(stripPrefix(go.name, "GameObject:")),
            position |-> rbCenter, rotation |-> getNodeRotation(go),
            collider |-> collider.val, bodyType |-> (IF findBodyType(go) = "null" THEN "Static"
                                                      ELSE findBodyType(go)),
            customParams |-> findCustomParams(go)])

buildAround(go, level, env, lib, rbCenter) ==
  IF ~rbCenter.ok THEN Throw(env, rbCenter.err)
  ELSE gameObjectData(go, rbCenter.val, buildCollider(go, level, env, rbCenter.val, lib))

buildGameObject(go, level, env, lib) ==
  buildAround(go, level, env, lib, computeRigidBodyCenter(go, level))

-----------------------------------------------------------------------------
(* scanner (export/scanner with the pixels-per-unit scaling) *)

RECURSIVE findLevelBlocks(_)
findLevelBlocks(nodes) ==
  Flatten([k \in 1..Len(nodes) |->
    (IF nodes[k].type = "FRAME" /\ startsWith(nodes[k].name, "LevelBlock:")
     THEN <<nodes[k]>> ELSE <<>>)
    \o (IF hasChildren(nodes[k]) THEN findLevelBlocks(nodes[k].children) ELSE <<>>)])

\* a faulty walk: only the direct children of the level are looked at
walkDirectChildren(nodes) ==
  SelectSeq(nodes, LAMBDA n : n.type = "GROUP" /\ startsWith(n.name, "GameObject:"))

RECURSIVE walkGameObjects(_)
walkGameObjects(nodes) ==
  Flatten([k \in 1..Len(nodes) |->
    (IF nodes[k].type = "GROUP" /\ startsWith(nodes[k].name, "GameObject:")
     THEN <<nodes[k]>> ELSE <<>>)
    \o (IF hasChildren(nodes[k]) THEN walkGameObjects(nodes[k].children) ELSE <<>>)])

\* findGameObjects: walk(level.children) throws a TypeError when the picked
\* node has no children property (for ... of undefined)
findGameObjects(level) ==
  IF hasChildren(level)
  THEN [ok |-> TRUE, val |-> walkGameObjects(level.children), err |-> <<>>]
  ELSE [ok |-> FALSE, val |-> <<>>, err |-> <<"nodes is not iterable">>]

\* x * s for the factor s = 1 / den
times(x, s) == Quot(x * s.num, s.den)

svec(v, s) == <<times(v[1], s), times(v[2], s)>>
sverts(vs, s) == [k \in 1..Len(vs) |-> svec(vs[k], s)]

\* a faulty scaleCollider: the children of a Compound are left as they are
scaleColliderShallow(c, s) ==
  CASE c.type = "Cuboid" -> [c EXCEPT !.position = svec(@, s), !.size = svec(@, s)]
    [] c.type = "Ball" -> [c EXCEPT !.position = svec(@, s), !.radius = times(@, s)]
    [] c.type = "ConvexHull" -> [c EXCEPT !.position = svec(@, s), !.vertices = sverts(@, s)]
    [] c.type = "Polyline" -> [c EXCEPT !.position = svec(@, s), !.vertices = sverts(@, s)]
    [] c.type = "Trimesh" -> [c EXCEPT !.position = svec(@, s),
                                       !.triangles = [vertices |-> sverts(@.vertices, s),
                                                      indices |-> @.indices]]
    [] c.type = "Compound" -> [c EXCEPT !.position = svec(@, s)]
    [] OTHER -> c

RECURSIVE scaleCollider(_, _)
scaleCollider(c, s) ==
  CASE c.type = "Cuboid" -> [c EXCEPT !.position = svec(@, s), !.size = svec(@, s)]
    [] c.type = "Ball" -> [c EXCEPT !.position = svec(@, s), !.radius = times(@, s)]
    [] c.type = "ConvexHull" -> [c EXCEPT !.position = svec(@, s), !.vertices = sverts(@, s)]
    [] c.type = "Polyline" -> [c EXCEPT !.position = svec(@, s), !.vertices = sverts(@, s)]
    [] c.type = "Trimesh" -> [c EXCEPT !.position = svec(@, s),
                                       !.triangles = [vertices |-> sverts(@.vertices, s),
                                                      indices |-> @.indices]]
    [] c.type = "Compound" -> [c EXCEPT !.position = svec(@, s),
                                        !.children = [k \in 1..Len(@) |-> scaleCollider(@[k], s)]]
    [] OTHER -> c

scaleLevel(level, s) ==
  [level EXCEPT
     !.width = times(@, s),
     !.height = times(@, s),
     !.gameObjects = [k \in 1..Len(@) |->
                        [@[k] EXCEPT !.position = svec(@, s),
                                     !.collider = IF @ # Null THEN scaleCollider(@, s) ELSE Null]]]

\* a faulty validation: any finite number is taken as it is
effectivePpmUnchecked(ppmRaw) == IF ppmRaw.finite THEN ppmRaw.v ELSE 1

\* Number.isFinite(ppmRaw) && ppmRaw > 0 ? ppmRaw : 1
effectivePpm(ppmRaw) == IF ppmRaw.finite /\ ppmRaw.v > 0 THEN ppmRaw.v ELSE 1

\* meta.warnings and meta.stats of a level are the reporter's own array and
\* object (the literal stores the references, and the spread of scaleLevel
\* copies them); whoever reads a level reads them through the reporter.
resolveLevel(level, rep) ==
  [level EXCEPT !.meta = [version |-> @.version, units |-> @.units,
                          warnings |-> rep.warnings, stats |-> rep.stats]]

\* the document serialised by JSON.stringify({version, levels: data})
documentOf(levels, rep) ==
  [version |-> "1.0.0", levels |-> [k \in 1..Len(levels) |-> resolveLevel(levels[k], rep)]]

-----------------------------------------------------------------------------
(* The scenes: the documents the plugin is run on *)

\* absoluteTransform of a node turned by q quarter turns whose origin is at (tx, ty)
Xform(q, tx, ty) == << <<Cos(q), Sin(q), tx>>, <<-Sin(q), Cos(q), ty>> >>

Node(name, type, m, w, h, children, vectorPaths) ==
  [name |-> name, type |-> type, absoluteTransform |-> m, sized |-> TRUE,
   width |-> w, height |-> h, children |-> children, vectorPaths |-> vectorPaths]

Rect(name, m, w, h) == Node(name, "RECTANGLE", m, w, h, <<>>, <<>>)
Vector(name, m, w, h, paths) == Node(name, "VECTOR", m, w, h, <<>>, paths)
Group(name, m, w, h, children) == Node(name, "GROUP", m, w, h, children, <<>>)
Frame(name, m, w, h, children) == Node(name, "FRAME", m, w, h, children, <<>>)

\* path data
seg(c, x, y) == <<[c |-> c], [n |-> x], [n |-> y]>>

Paths ==
  [ Triangle |-> seg("M", 0, 0) \o seg("L", 48, 0) \o seg("L", 0, 48) \o <<[c |-> "Z"]>>,
    LShape |-> seg("M", 0, 0) \o seg("L", 96, 0) \o seg("L", 96, 48) \o seg("L", 48, 48)
                 \o seg("L", 48, 96) \o seg("L", 0, 96) \o <<[c |-> "Z"]>>,
    Quad |-> seg("M", 0, 0) \o seg("L", 96, 0) \o seg("L", 96, 48) \o seg("L", 0, 48)
               \o <<[c |-> "Z"]>>,
    Open |-> seg("M", 0, 0) \o seg("L", 48, 48) \o seg("L", 96, 0) \o seg("L", 144, 48) ]

\* the GameObject groups of the scenes
Scenes ==
  [ Box |->
      Group(<<"GameObject:", " ", "Box", " ">>, Xform(0, 96, 96), 96, 48,
        << Rect(<<"Collider:", "Cuboid">>, Xform(0, 96, 96), 96, 48) >>),
    Pair |->
      Group(<<"GameObject:", "Pair">>, Xform(0, 192, 96), 192, 48,
        << Node(<<"Collider:", "Ball">>, "ELLIPSE", Xform(0, 192, 96), 32, 32, <<>>, <<>>),
           Rect(<<"Collider:", "Cuboid">>, Xform(0, 288, 96), 96, 48) >>),
    Deco |->
      Group(<<"GameObject:", "Deco">>, Xform(0, 480, 96), 48, 48,
        << Rect(<<"Sprite">>, Xform(0, 480, 96), 48, 48) >>),
    Broken |->
      Group(<<"GameObject:", "Broken">>, Xform(0, 576, 96), 96, 48,
        << Node(<<"Collider:", "Convex">>, "TEXT", Xform(0, 576, 96), 96, 48, <<>>, <<>>) >>),
    Odd |->
      Group(<<"GameObject:", "Odd">>, Xform(0, 96, 192), 96, 48,
        << Rect(<<"Collider:", "Capsule">>, Xform(0, 96, 192), 96, 48) >>),
    Turned |->
      Group(<<"GameObject:", "Turned">>, Xform(1, 240, 288), 96, 48,
        << Rect(<<"Collider:", " ", "Cuboid">>, Xform(2, 288, 288), 48, 96) >>),
    Tri |->
      Group(<<"GameObject:", "Tri">>, Xform(0, 384, 192), 48, 48,
        << Vector(<<"Collider:", "Convex">>, Xform(1, 384, 240), 48, 48, <<Paths.Triangle>>) >>),
    Ell |->
      Group(<<"GameObject:", "Ell">>, Xform(0, 480, 192), 96, 96,
        << Vector(<<"Collider:", "Convex">>, Xform(0, 480, 192), 96, 96, <<Paths.LShape>>) >>),
    Comp |->
      Group(<<"GameObject:", "Comp">>, Xform(0, 624, 192), 192, 96,
        << Group(<<"Collider:", "Compound">>, Xform(1, 624, 384), 192, 192,
             << Rect(<<"Collider:", "Cuboid">>, Xform(2, 720, 288), 96, 48),
                Vector(<<"Collider:", "Convex">>, Xform(0, 672, 240), 48, 48, <<Paths.Triangle>>),
                Node(<<"Collider:", "Ball">>, "ELLIPSE", Xform(0, 768, 336), 32, 32, <<>>, <<>>) >>) >>),
    Nest |->
      Group(<<"GameObject:", "Nest">>, Xform(0, 96, 336), 192, 96,
        << Group(<<"Collider:", "Compound">>, Xform(0, 96, 336), 192, 96,
             << Rect(<<"Collider:", "Cuboid">>, Xform(0, 96, 336), 96, 48),
                Group(<<"Collider:", "Compound">>, Xform(1, 192, 432), 96, 96,
                  << Node(<<"Collider:", "Ball">>, "ELLIPSE", Xform(0, 240, 384), 32, 32, <<>>, <<>>) >>),
                Vector(<<"Collider:", "Convex">>, Xform(0, 96, 384), 48, 48, <<Paths.Triangle>>) >>) >>),
    Line |->
      Group(<<"GameObject:", "Line">>, Xform(0, 336, 336), 144, 96,
        << Vector(<<"Collider:", "Polyline">>, Xform(0, 336, 336), 144, 48, <<Paths.Open>>),
           Vector(<<"Collider:", "Trimesh">>, Xform(0, 336, 384), 96, 48, <<Paths.Quad>>) >>),
    Outer |->
      Group(<<"GameObject:", "Outer">>, Xform(0, 528, 336), 192, 96,
        << Rect(<<"Collider:", "Cuboid">>, Xform(0, 528, 336), 96, 96),
           Group(<<"GameObject:", "Inner">>, Xform(0, 672, 336), 48, 48,
             << Node(<<"Collider:", "Ball">>, "ELLIPSE", Xform(0, 672, 336), 32, 32, <<>>, <<>>) >>) >>),
    Dyn |->
      Group(<<"GameObject:", "Dyn">>, Xform(0, 768, 96), 96, 96,
        << Node(<<"BodyType:", " ", "Dynamic">>, "TEXT", Xform(0, 768, 96), 48, 24, <<>>, <<>>),
           Node(<<"CustomParam:", "mass", ":", " ", "2">>, "TEXT", Xform(0, 768, 120), 48, 24, <<>>, <<>>),
           Rect(<<"Collider:", "Cuboid">>, Xform(0, 768, 96), 96, 96) >>),
    \* a rectangle that is upright in the world inside a group that is turned
    Tilted |->
      Group(<<"GameObject:", "Tilted">>, Xform(1, 96, 480), 48, 96,
        << Rect(<<"Collider:", "Cuboid">>, Xform(0, 96, 432), 96, 48) >>),
    \* a supported collider beside an unsupported one
    Mixed |->
      Group(<<"GameObject:", "Mixed">>, Xform(0, 240, 432), 192, 48,
        << Rect(<<"Collider:", "Capsule">>, Xform(0, 240, 432), 96, 48),
           Node(<<"Collider:", "Ball">>, "ELLIPSE", Xform(0, 384, 432), 32, 32, <<>>, <<>>),
           Rect(<<"Collider:", "Cuboid">>, Xform(0, 336, 432), 48, 48) >>),
    \* an explicit Compound without a collider inside, off the centre of its group
    Hollow |->
      Group(<<"GameObject:", "Hollow">>, Xform(0, 480, 432), 192, 96,
        << Group(<<"Collider:", "Compound">>, Xform(0, 576, 432), 96, 48,
             << Rect(<<"Sprite">>, Xform(0, 576, 432), 96, 48) >>) >>),
    \* three upright colliders off the centre of a group that is turned
    Spun |->
      Group(<<"GameObject:", "Spun">>, Xform(1, 720, 480), 48, 192,
        << Node(<<"Collider:", "Ball">>, "ELLIPSE", Xform(0, 720, 448), 32, 32, <<>>, <<>>),
           Rect(<<"Collider:", "Cuboid">>, Xform(0, 816, 432), 96, 48),
           Vector(<<"Collider:", "Convex">>, Xform(0, 768, 432), 48, 48, <<Paths.Triangle>>) >>) ]

\* the GameObject groups a level is assembled from, in document order
Catalogue ==
  << Scenes.Box, Scenes.Pair, Scenes.Deco, Scenes.Broken, Scenes.Odd, Scenes.Turned,
     Scenes.Tri, Scenes.Comp, Scenes.Nest, Scenes.Ell, Scenes.Line, Scenes.Outer,
     Scenes.Dyn, Scenes.Tilted, Scenes.Mixed, Scenes.Hollow, Scenes.Spun >>

\* the object lists of the level under test: the runs of at most MaxObjects
\* consecutive catalogue entries, the empty run among them
ObjectLists ==
  { SubSeq(Catalogue, a, b) :
      <<a, b>> \in { w \in (1..Len(Catalogue)) \X (0..Len(Catalogue)) :
                       w[2] - w[1] + 1 \in 0..MaxObjects } }

LevelMain(objs) == Frame(<<"LevelBlock:", " ", "Main">>, Xform(0, 48, 48), 960, 480, objs)

\* the page with the level under test alone, nothing selected
PlainPage(objs) == [children |-> <<LevelMain(objs)>>, selection |-> <<>>]

\* the other pages: a level inside a wrapper frame next to a second level; a
\* selection that reorders the levels and holds a non-level node; a selection
\* that holds a non-container node carrying the level prefix
OtherPages(objs) ==
  LET LevelSide == Frame(<<"LevelBlock:", "Side">>, Xform(0, 1104, 48), 480, 480, <<Scenes.Dyn>>)
      Wrapper == Frame(<<"Section">>, Xform(0, 0, 0), 1680, 576, <<LevelMain(objs)>>)
      StrayRect == Rect(<<"LevelBlock:", "Stray">>, Xform(0, 0, 624), 96, 96)
      PlainRect == Rect(<<"Background">>, Xform(0, 0, 0), 1680, 576)
  IN  { [children |-> <<Wrapper, LevelSide>>, selection |-> <<>>],
        [children |-> <<LevelMain(objs), LevelSide>>,
         selection |-> <<LevelSide, PlainRect, LevelMain(objs)>>],
        [children |-> <<LevelMain(objs), StrayRect>>,
         selection |-> <<LevelMain(objs), StrayRect>>] }

\* the export message; ppm 1 is what the UI sends by default
ExportMsg(p) == [type |-> "export", ppm |-> p]

\* the runs of the model: the plain page under every pixels-per-unit input and
\* every library behaviour, the other pages at one pixel per unit.
\* Number(msg.ppm) is a finite number v, or NaN / Infinity (finite = FALSE; a
\* message without ppm gives Number(undefined) = NaN); poly-decomp's
\* quickDecomp answers with parts, throws, or returns nothing
Inputs ==
  LET PpmInputs == { [finite |-> TRUE, v |-> 1], [finite |-> TRUE, v |-> 2],
                     [finite |-> TRUE, v |-> 0], [finite |-> TRUE, v |-> -2],
                     [finite |-> FALSE, v |-> 0] }
      LibBehaviours == {"parts", "throws", "empty"}
  IN
  UNION { {[page |-> PlainPage(objs), msg |-> ExportMsg(p), lib |-> "parts"] : p \in PpmInputs}
          \cup {[page |-> PlainPage(objs), msg |-> ExportMsg([finite |-> TRUE, v |-> 1]), lib |-> l] : l \in LibBehaviours}
          \cup {[page |-> pg, msg |-> ExportMsg([finite |-> TRUE, v |-> 1]), lib |-> "parts"] : pg \in OtherPages(objs)}
          : objs \in ObjectLists }

-----------------------------------------------------------------------------
(* The plugin: figma.ui.onmessage and exportLevels *)

VARIABLES
  page,         \* figma.currentPage: children and selection
  msg,          \* the message the UI sends: [type, ppm]
  lib,          \* how the decomposition library answers in this run
  pc,           \* where the handler stands
  ui,           \* the notifications posted to the UI, in order
  reporter,     \* the reporter of the run: warnings, stats
  ppm,          \* the pixels-per-unit exportLevels was called with
  picked,       \* the levels to export
  li,           \* index in picked of the level in hand
  levelData,    \* the LevelData under construction
  gameObjects,  \* findGameObjects(level)
  gi,           \* index in gameObjects of the next group to build
  results,      \* the levels pushed so far
  trace,        \* history: one entry per group handed to buildGameObject
  other,        \* the locals of a second request while it is not the one running
  calc          \* a call of a geometry function on its own: function, arguments, result

vars == <<page, msg, lib, pc, ui, reporter, ppm, picked, li, levelData, gameObjects, gi, results,
          trace, other, calc>>

NoLevel == [name |-> <<>>, width |-> 0, height |-> 0, gameObjects |-> <<>>,
            meta |-> [version |-> "1.0.0", units |-> [pixelsPerUnit |-> 1]]]

\* the plugin before its first message, on the document of an input
Idle(in) ==
  /\ page = in.page /\ msg = in.msg /\ lib = in.lib
  /\ pc = "idle"
  /\ ui = <<>>
  /\ reporter = makeReporter
  /\ ppm = 1
  /\ picked = <<>>
  /\ li = 1
  /\ levelData = NoLevel
  /\ gameObjects = <<>>
  /\ gi = 1
  /\ results = <<>>
  /\ trace = <<>>
  /\ other = [msg |-> ExportMsg([finite |-> TRUE, v |-> 2]), pc |-> "idle",
              reporter |-> makeReporter, ppm |-> 1, picked |-> <<>>, li |-> 1,
              levelData |-> NoLevel, gameObjects |-> <<>>, gi |-> 1, results |-> <<>>,
              trace |-> <<>>]

Init == \E in \in Inputs : Idle(in) /\ calc = [fn |-> "none"]

\* figma.ui.onmessage up to the loop of exportLevels: the pixels-per-unit is
\* validated, 'status' is posted, the levels are picked and the reporter made
OnExportMessage ==
  /\ pc = "idle"
  /\ msg.type = "export"
  /\ LET selection == page.selection
         levels == findLevelBlocks(page.children)
     IN  /\ ppm' = effectivePpm(msg.ppm)
         /\ ui' = postMessage(ui, [type |-> "status", text |-> <<"Scanning levels...">>])
         /\ reporter' = makeReporter
         /\ picked' = IF Len(selection) > 0
                      THEN SelectSeq(selection, LAMBDA n : startsWith(n.name, "LevelBlock:"))
                      ELSE levels
  /\ li' = 1
  /\ results' = <<>>
  /\ pc' = "levels"
  /\ UNCHANGED <<page, msg, lib, other, calc, levelData, gameObjects, gi, trace>>

\* the reporter and the UI port as one value, and back
envOf(r, u) == [warnings |-> r.warnings, stats |-> r.stats, ui |-> u]
reporterOf(env) == [warnings |-> env.warnings, stats |-> env.stats]

\* if (gameObjects.length === 0) reporter.warn(`Level ${name} has no GameObject groups.`)
warnIfEmpty(env, name, found) ==
  IF Len(found) = 0
  THEN warn(env, <<"Level ">> \o name \o <<" has no GameObject groups.">>)
  ELSE env

\* the head of the loop body: levelData is made and the groups are found
BeginLevel ==
  /\ pc = "levels"
  /\ li <= Len(picked)
  /\ \E found \in {findGameObjects(picked[li])} :
       /\ found.ok
       /\ \E env1 \in {warnIfEmpty(envOf(reporter, ui),
                                   trim(stripPrefix(picked[li].name, "LevelBlock:")),
                                   found.val)} :
            /\ reporter' = reporterOf(env1)
            /\ ui' = env1.ui
       /\ gameObjects' = found.val
  /\ levelData' = [name |-> trim(stripPrefix(picked[li].name, "LevelBlock:")),
                   width |-> picked[li].width, height |-> picked[li].height,
                   gameObjects |-> <<>>,
                   meta |-> [version |-> "1.0.0", units |-> [pixelsPerUnit |-> ppm]]]
  /\ gi' = 1
  /\ pc' = "objects"
  /\ UNCHANGED <<page, msg, lib, other, calc, ppm, picked, li, results, trace>>

\* a faulty handler: the rejection of exportLevels is caught and not reported
LevelThrowsUnreported ==
  /\ pc = "levels"
  /\ li <= Len(picked)
  /\ ~findGameObjects(picked[li]).ok
  /\ pc' = "error"
  /\ UNCHANGED <<page, msg, lib, other, calc, ui, reporter, ppm, picked, li, levelData, gameObjects, gi,
                 results, trace>>

\* findGameObjects throws outside the per-object try: exportLevels rejects and
\* the handler's catch posts 'error'
LevelThrows ==
  /\ pc = "levels"
  /\ li <= Len(picked)
  /\ LET found == findGameObjects(picked[li])
     IN  /\ ~found.ok
         /\ ui' = postMessage(ui, [type |-> "error", text |-> found.err])
  /\ pc' = "error"
  /\ UNCHANGED <<page, msg, lib, other, calc, reporter, ppm, picked, li, levelData, gameObjects, gi,
                 results, trace>>

\* a faulty catch: the exception is swallowed without a warning
afterTrySilent(go, built) == built.env

\* catch (e) { reporter.warn(`Failed to build GameObject ${go.name}: ${e.message}`) }
afterTry(go, built) ==
  IF built.ok THEN built.env
  ELSE warn(built.env, <<"Failed to build GameObject ">> \o go.name \o <<": ">> \o built.err)

\* one turn of the per-object loop, up to its yield
BuildObject ==
  /\ pc = "objects"
  /\ gi <= Len(gameObjects)
  /\ \E built \in {buildGameObject(gameObjects[gi], picked[li], envOf(reporter, ui), lib)} :
       /\ levelData' = IF built.ok
                       THEN [levelData EXCEPT !.gameObjects = Append(@, built.val)]
                       ELSE levelData
       /\ \E env1 \in {afterTry(gameObjects[gi], built)} :
            /\ reporter' = reporterOf(env1)
            /\ ui' = postMessage(env1.ui, [type |-> "progress",
                                           text |-> <<"Processed ">> \o gameObjects[gi].name])
       /\ trace' = Append(trace, [level |-> li, idx |-> gi, ok |-> built.ok, val |-> built.val,
                                  before |-> reporter, after |-> reporter'])
  /\ gi' = gi + 1
  /\ UNCHANGED <<page, msg, lib, other, calc, pc, ppm, picked, li, gameObjects, results>>

\* after the last group: the level is scaled and pushed
EndLevel ==
  /\ pc = "objects"
  /\ gi > Len(gameObjects)
  /\ results' = Append(results, scaleLevel(levelData, [num |-> 1, den |-> IF ppm = 0 THEN 1 ELSE ppm]))
  /\ li' = li + 1
  /\ pc' = "levels"
  /\ UNCHANGED <<page, msg, lib, other, calc, ui, reporter, ppm, picked, levelData, gameObjects, gi, trace>>

\* exportLevels returns; the handler serialises the document and posts 'done'
Done ==
  /\ pc = "levels"
  /\ li > Len(picked)
  /\ ui' = postMessage(ui, [type |-> "done", json |-> documentOf(results, reporter),
                            levels |-> documentOf(results, reporter).levels])
  /\ pc' = "done"
  /\ UNCHANGED <<page, msg, lib, other, calc, reporter, ppm, picked, li, levelData, gameObjects, gi,
                 results, trace>>

Next == OnExportMessage \/ BeginLevel \/ LevelThrows \/ BuildObject \/ EndLevel \/ Done

Spec == Init /\ [][Next]_vars

\* The handler runs each of its steps to the end, and the scheduler resumes
\* every turn of the loop after its yield (setTimeout(r, 0)).  The last
\* conjunct is weak fairness of BuildObject: the action is enabled exactly
\* when the loop stands at a group (the guards of BuildObject: its body only
\* assigns), and every step from such a state is a turn of the loop.
FairSpec ==
  /\ Spec
  /\ WF_vars(OnExportMessage \/ BeginLevel \/ LevelThrows \/ EndLevel \/ Done)
  /\ \/ []<>(~(pc = "objects" /\ gi <= Len(gameObjects)))
     \/ []<><<pc = "objects" /\ gi <= Len(gameObjects) /\ gi' = gi + 1>>_vars

\* Two requests.  The handler is async: a second 'export' message is taken
\* up while the first run waits at the yield of its object loop, and from
\* then on the scheduler resumes either run at its yields.  What a run keeps
\* between its turns are the locals of its own call of the handler and of
\* exportLevels; the page, the library and the UI port are the same for both.

\* the locals of the run that is running
localsNow ==
  [msg |-> msg, pc |-> pc, reporter |-> reporter, ppm |-> ppm, picked |-> picked, li |-> li,
   levelData |-> levelData, gameObjects |-> gameObjects, gi |-> gi, results |-> results,
   trace |-> trace]

\* a faulty exportLevels: the reporter is kept at module level, one for
\* every run
resumedSharingReporter(mine, theirs) == [theirs EXCEPT !.reporter = mine.reporter]

\* what the run that is resumed finds in its locals: what it left there
resumed(mine, theirs) == theirs

\* the running run has yielded (await new Promise(r => setTimeout(r, 0))) or
\* has ended, and the other one, which has not ended, is resumed: it takes up
\* its message if it has not started
Switch ==
  /\ \/ pc = "objects" /\ gi >= 2
     \/ pc \in {"done", "error"}
  /\ other.pc \notin {"done", "error"}
  /\ \E next \in {resumed(localsNow, other)} :
       /\ msg' = next.msg
       /\ pc' = next.pc
       /\ reporter' = next.reporter
       /\ ppm' = next.ppm
       /\ picked' = next.picked
       /\ li' = next.li
       /\ levelData' = next.levelData
       /\ gameObjects' = next.gameObjects
       /\ gi' = next.gi
       /\ results' = next.results
       /\ trace' = next.trace
  /\ other' = localsNow
  /\ UNCHANGED <<page, lib, ui, calc>>

NextOfTwo == Next \/ Switch

\* the first request asks for one pixel per unit, the second for two
InitOfTwo == Init /\ msg.ppm = [finite |-> TRUE, v |-> 1]

TwoRunSpec == InitOfTwo /\ [][NextOfTwo]_vars

-----------------------------------------------------------------------------
(* The geometry functions called on their own *)

\* the largest vertex budget asked for
MaxBudget == 7

\* the calls: flattenSVGPath on the paths made of a start, two commands and
\* an end, with a curve tolerance of 32, and on polylines written in a unit
\* of a tenth of eps (eps2 = 100; a coordinate of 640 is 0.064 px);
\* ensureClockwise and ensureCCW on polygons, among them a flat and a
\* self-crossing one; getWorldPolygonVertices on translated vector nodes of
\* two or three paths, closed and open, some of one or two points;
\* triangulateConcave on simple polygons, simplifyPolygon on closed
\* polygons (one of them with its first vertex repeated at the end), each
\* polygon from every start vertex and in both directions
CalcInputs ==
  LET Tri == << <<0, 0>>, <<4, 0>>, <<0, 4>> >>
      Square == << <<0, 0>>, <<4, 0>>, <<4, 4>>, <<0, 4>> >>
      Dart == << <<0, 0>>, <<4, 2>>, <<0, 4>>, <<1, 2>> >>
      Ell == << <<0, 0>>, <<4, 0>>, <<4, 2>>, <<2, 2>>, <<2, 4>>, <<0, 4>> >>
      Notch == << <<0, 0>>, <<6, 0>>, <<6, 4>>, <<4, 4>>, <<3, 1>>, <<2, 4>>, <<0, 4>> >>
      Bumpy == << <<0, 0>>, <<10, 1>>, <<20, 0>>, <<21, 10>>, <<20, 20>>, <<10, 22>>,
                  <<0, 20>>, <<-3, 10>> >>
      Closed == << <<0, 0>>, <<8, 0>>, <<8, 1>>, <<8, 8>>, <<0, 8>>, <<0, 0>> >>
      Flat == << <<0, 0>>, <<2, 0>>, <<4, 0>> >>
      Bowtie == << <<0, 0>>, <<4, 4>>, <<4, 0>>, <<0, 4>> >>
      from(p, k) == [i \in 1..Len(p) |-> p[((i + k - 1) % Len(p)) + 1]]
      orders(p) == UNION { {from(p, k), Reverse(from(p, k))} : k \in 0..(Len(p) - 1) }
      c(letter, numbers) == <<[c |-> letter]>> \o [k \in 1..Len(numbers) |-> [n |-> numbers[k]]]
      starts == { <<>>, c("M", <<0, 0>>), c("M", <<64, 64>>), c("m", <<64, 64>>) }
      smooth == { c("t", <<64, 64>>), c("T", <<128, 128>>), c("s", <<64, 64, 128, 0>>),
                  c("S", <<64, 64, 128, 0>>) }
      drawn == { c("l", <<64, 0>>), c("L", <<64, 64>>), c("L", <<0, 0>>), c("l", <<0, 0>>),
                 c("H", <<128>>), c("h", <<64>>), c("V", <<128>>), c("v", <<64>>),
                 c("q", <<0, 64, 64, 64>>), c("c", <<0, 64, 64, 64, 64, 0>>),
                 c("a", <<0, 0, 0, 0, 0, 64, 64>>), c("Z", <<>>), c("M", <<128, 128>>),
                 c("m", <<64, 0>>), c("M", <<0, 0, 64, 0>>) } \cup smooth
      lasts == { <<>>, c("Z", <<>>), c("h", <<64>>), c("V", <<128>>), c("M", <<128, 128>>) }
                 \cup smooth
      fine == { c("M", <<0, 0>>) \o c("L", <<640, 0, 640, 640, 9, 0, -5, 0>>) \o c("Z", <<>>),
                c("M", <<0, 0>>) \o c("L", <<640, 0, 645, 5, 640, 640, 5, 0>>) \o c("Z", <<>>),
                c("M", <<0, 0>>) \o c("L", <<5, 5, 640, 0, 640, 640, -5, 5, -10, 0>>),
                c("M", <<0, 0>>) \o c("L", <<15, 0, 640, 640>>) \o c("Z", <<>>) }
      outlines == << c("M", <<0, 0>>) \o c("L", <<64, 0, 64, 64, 0, 64>>) \o c("Z", <<>>),
                     c("M", <<0, 0>>) \o c("L", <<128, 0, 128, 16>>) \o c("Z", <<>>),
                     c("M", <<0, 0>>) \o c("L", <<8, 0, 8, 8, 0, 8>>) \o c("Z", <<>>)
                       \o c("M", <<16, 16>>) \o c("L", <<32, 16, 32, 32>>),
                     c("M", <<0, 0>>) \o c("L", <<64, 64>>) \o c("Z", <<>>),
                     c("M", <<8, 8>>) \o c("Z", <<>>),
                     c("M", <<0, 0>>) \o c("L", <<16, 0, 32, 0, 48, 8, 64, 0>>),
                     c("M", <<0, 0>>) \o c("L", <<256, 256>>) >>
      options == { [hasEpsilon |-> he, epsilon |-> e, hasMaxPoints |-> hm, maxPoints |-> m] :
                     he \in BOOLEAN, e \in {-2, 0, 3, 8, 100}, hm \in BOOLEAN,
                     m \in (-1)..MaxBudget }
  IN  { [fn |-> "flattenSVGPath", data |-> s0 \o d1 \o d2 \o d3, eps2 |-> 0, returned |-> FALSE,
         st |-> pathStart([curveTol |-> [num |-> 32, den |-> 1], maxRecursion |-> 10]),
         out |-> <<>>] : s0 \in starts, d1 \in drawn, d2 \in drawn, d3 \in lasts }
      \cup
      { [fn |-> "flattenSVGPath", data |-> d, eps2 |-> 100, returned |-> FALSE,
         st |-> pathStart([curveTol |-> [num |-> 7500, den |-> 1], maxRecursion |-> 10]),
         out |-> <<>>] : d \in fine }
      \cup
      { [fn |-> "getWorldPolygonVertices", returned |-> FALSE, out |-> <<>>,
         node |-> Vector(<<"Collider:", "Polyline">>, <<<<1, 0, 16>>, <<0, 1, 32>>>>, 64, 64,
                         IF k3 = 0 THEN <<outlines[k1], outlines[k2]>>
                         ELSE <<outlines[k1], outlines[k2], outlines[k3]>>)] :
          k1 \in 1..Len(outlines), k2 \in 1..Len(outlines), k3 \in 0..Len(outlines) }
      \cup
      { [fn |-> f, vertices |-> v, opts |-> <<>>, returned |-> FALSE, out |-> <<>>] :
          f \in {"ensureClockwise", "ensureCCW"},
          v \in UNION {orders(p) : p \in {Tri, Square, Dart, Ell, Notch, Flat, Bowtie}} }
      \cup
      { [fn |-> "triangulateConcave", vertices |-> v, opts |-> <<>>, returned |-> FALSE,
         out |-> <<>>] : v \in UNION {orders(p) : p \in {Tri, Square, Dart, Ell, Notch}} }
      \cup
      { [fn |-> "simplifyPolygon", vertices |-> v, opts |-> o, returned |-> FALSE, out |-> <<>>] :
          v \in UNION {orders(p) : p \in {Tri, Square, Dart, Ell, Bumpy}} \cup {Closed},
          o \in {o \in options : (o.hasEpsilon \/ o.epsilon = 0)
                                  /\ (o.hasMaxPoints \/ o.maxPoints = 0)} }

\* one turn of the loop of flattenSVGPath
ReadCommand ==
  /\ calc.fn = "flattenSVGPath" /\ ~calc.returned
  /\ calc.st.i <= Len(calc.data)
  /\ calc' = [calc EXCEPT !.st = pathTurn(calc.st, calc.data)]
  /\ UNCHANGED <<page, msg, lib, pc, ui, reporter, ppm, picked, li, levelData, gameObjects, gi,
                 results, trace, other>>

\* the loop has ended: flattenSVGPath returns its contours
ReturnContours ==
  /\ calc.fn = "flattenSVGPath" /\ ~calc.returned
  /\ calc.st.i > Len(calc.data)
  /\ calc' = [calc EXCEPT !.returned = TRUE, !.out = dedupeContours(emitActive(calc.st), calc.eps2)]
  /\ UNCHANGED <<page, msg, lib, pc, ui, reporter, ppm, picked, li, levelData, gameObjects, gi,
                 results, trace, other>>

Orient ==
  /\ calc.fn \in {"ensureClockwise", "ensureCCW"} /\ ~calc.returned
  /\ calc' = [calc EXCEPT !.returned = TRUE,
                          !.out = IF calc.fn = "ensureCCW" THEN ensureCCW(calc.vertices)
                                  ELSE ensureClockwise(calc.vertices)]
  /\ UNCHANGED <<page, msg, lib, pc, ui, reporter, ppm, picked, li, levelData, gameObjects, gi,
                 results, trace, other>>

Triangulate ==
  /\ calc.fn = "triangulateConcave" /\ ~calc.returned
  /\ calc' = [calc EXCEPT !.returned = TRUE, !.out = triangulateConcave(calc.vertices)]
  /\ UNCHANGED <<page, msg, lib, pc, ui, reporter, ppm, picked, li, levelData, gameObjects, gi,
                 results, trace, other>>

Simplify ==
  /\ calc.fn = "simplifyPolygon" /\ ~calc.returned
  /\ calc' = [calc EXCEPT !.returned = TRUE, !.out = simplifyPolygon(calc.vertices, calc.opts)]
  /\ UNCHANGED <<page, msg, lib, pc, ui, reporter, ppm, picked, li, levelData, gameObjects, gi,
                 results, trace, other>>

WorldVertices ==
  /\ calc.fn = "getWorldPolygonVertices" /\ ~calc.returned
  /\ calc' = [calc EXCEPT !.returned = TRUE, !.out = getWorldPolygonVertices(calc.node).val]
  /\ UNCHANGED <<page, msg, lib, pc, ui, reporter, ppm, picked, li, levelData, gameObjects, gi,
                 results, trace, other>>

CalcNext == ReadCommand \/ ReturnContours \/ Orient \/ WorldVertices \/ Triangulate \/ Simplify

\* no export is under way while a function is called on its own
CalcInit ==
  /\ Idle([page |-> PlainPage(<<>>), msg |-> ExportMsg([finite |-> TRUE, v |-> 1]),
           lib |-> "parts"])
  /\ calc \in CalcInputs

CalcSpec == CalcInit /\ [][CalcNext]_vars

-----------------------------------------------------------------------------
(* Properties *)

\* the set of the elements of a sequence
Range(seq) == {seq[k] : k \in DOMAIN seq}

\* the texts of the 'warn' notifications posted so far, in order
warnTexts(u) ==
  [k \in 1..Len(SelectSeq(u, LAMBDA m : m.type = "warn")) |->
     SelectSeq(u, LAMBDA m : m.type = "warn")[k].text]

\* the positions in the UI port of the terminal notifications
terminalAt(u) == {k \in 1..Len(u) : u[k].type \in {"done", "error"}}

\* a group built on its own, with a fresh reporter
builtAlone(go, level) == buildGameObject(go, level, envOf(makeReporter, <<>>), lib)

\* the objects of the first n groups of a level that build without a throw
builtUpTo(level, n) ==
  LET all == [k \in 1..n |-> builtAlone(findGameObjects(level).val[k], level)]
      good == SelectSeq(all, LAMBDA b : b.ok)
  IN  [k \in 1..Len(good) |-> good[k].val]

\* the group a trace entry is about
groupOf(e) == findGameObjects(picked[e.level]).val[e.idx]

\* C1 (as stated): a group whose build throws is still emitted, with collider
\* null, so a level emits as many objects as it has GameObject groups: while
\* the groups are built, one object per group handed to buildGameObject, and in
\* the returned levels, one object per group found.
C1_ThrownObjectIsEmitted ==
  /\ pc = "objects" =>
       /\ Len(levelData.gameObjects) = gi - 1
       /\ \A k \in 1..Len(trace) :
            (trace[k].level = li /\ ~trace[k].ok) =>
              levelData.gameObjects[trace[k].idx].collider = Null
  /\ pc = "done" =>
       \A k \in 1..Len(results) :
         Len(results[k].gameObjects) = Len(findGameObjects(picked[k]).val)

\* C2: a throw of buildGameObject for one group records exactly one warning,
\* which names the group, and stops nothing: the objects emitted for the level
\* are those of all its other groups, in document order, and every picked
\* level is returned.
C2_FailureIsContained ==
  /\ \A k \in 1..Len(trace) :
       ~trace[k].ok =>
         /\ Len(trace[k].after.warnings) = Len(trace[k].before.warnings) + 1
         /\ SubSeq(trace[k].after.warnings, 1, Len(trace[k].before.warnings))
              = trace[k].before.warnings
         /\ SubSeq(trace[k].after.warnings[Len(trace[k].after.warnings)], 1,
                   1 + Len(groupOf(trace[k]).name))
              = <<"Failed to build GameObject ">> \o groupOf(trace[k]).name
  /\ pc = "objects" =>
       LET turns == SelectSeq(trace, LAMBDA e : e.level = li)
           good == SelectSeq(turns, LAMBDA e : e.ok)
       IN  /\ [k \in 1..Len(turns) |-> turns[k].idx] = [k \in 1..(gi - 1) |-> k]
           /\ levelData.gameObjects = [k \in 1..Len(good) |-> good[k].val]
  /\ pc = "done" =>
       /\ Len(results) = Len(picked)
       /\ \A k \in 1..Len(results) :
            LET built == builtUpTo(picked[k], Len(findGameObjects(picked[k]).val))
            IN  [j \in 1..Len(results[k].gameObjects) |-> results[k].gameObjects[j].name]
                  = [j \in 1..Len(built) |-> built[j].name]

\* C2 happens: a level is returned in which the group between two built
\* groups threw
C2_Witness ==
  /\ pc = "done"
  /\ \E a, b, c \in 1..Len(trace) :
       /\ a < b /\ b < c
       /\ trace[a].level = trace[b].level /\ trace[b].level = trace[c].level
       /\ trace[a].ok /\ ~trace[b].ok /\ trace[c].ok

\* C3: at every point of a run the 'warn' notifications posted are the
\* reporter's warnings, message for message and in order, and the document
\* posted with 'done' holds them all in the meta.warnings of each level; a
\* run that warned returns a level.
C3_NoWarningDropped ==
  /\ warnTexts(ui) = reporter.warnings
  /\ pc = "done" =>
       /\ reporter.warnings # <<>> => ui[Len(ui)].json.levels # <<>>
       /\ \A k \in 1..Len(ui[Len(ui)].json.levels) :
            ui[Len(ui)].json.levels[k].meta.warnings = warnTexts(ui)

\* C3 happens: a returned document with warnings from the level loop, from
\* buildCollider and from the catch of the per-object try
C3_Witness ==
  /\ pc = "done"
  /\ Len(reporter.warnings) >= 2
  /\ \E k \in 1..Len(reporter.warnings) :
       Head(reporter.warnings[k]) = "Failed to build GameObject "
  /\ \E k \in 1..Len(reporter.warnings) : Head(reporter.warnings[k]) = "GameObject "

\* what C4 says of every state of a run
OneTerminal ==
  /\ Cardinality(terminalAt(ui)) <= 1
  /\ terminalAt(ui) \subseteq {Len(ui)}
  /\ (terminalAt(ui) # {}) <=> (pc \in {"done", "error"})
  /\ pc = "done" =>
       /\ ui[Len(ui)].type = "done"
       /\ Len(ui[Len(ui)].json.levels) = Len(picked)
       /\ \A k \in 1..Len(picked) :
            /\ ui[Len(ui)].json.levels[k].name = trim(stripPrefix(picked[k].name, "LevelBlock:"))
            /\ Len(ui[Len(ui)].json.levels[k].gameObjects)
                 = Len(builtUpTo(picked[k], Len(findGameObjects(picked[k]).val)))
  /\ pc = "error" =>
       /\ ui[Len(ui)].type = "error"
       /\ \E k \in 1..Len(picked) : ~findGameObjects(picked[k]).ok

\* C4: an 'export' request ends with exactly one terminal notification, 'done'
\* with every picked level complete or 'error' after a throw outside the
\* per-object try, never both, and nothing is posted after it.
C4_ExactlyOneTerminal == [](OneTerminal) /\ <>(pc \in {"done", "error"})

\* C4 happens: a run that posted warnings and progress ends in 'error'
C4_Witness ==
  /\ pc = "error"
  /\ \E k \in 1..Len(ui) : ui[k].type = "progress"
  /\ \E k \in 1..Len(ui) : ui[k].type = "warn"

-----------------------------------------------------------------------------
(* Emitted colliders and the nodes they were built from *)

\* the direct children of a group that buildCollider takes for colliders
colliderNodes(go) == SelectSeq(go.children, LAMBDA n : startsWith(n.name, "Collider:"))

PolygonTags == {<<"Convex">>, <<"Trimesh">>, <<"Polyline">>}

\* a direct collider node that yields a collider rather than null
yieldsAtTop(n) ==
  \/ colliderType(n) \in {<<"Cuboid">>, <<"Ball">>} /\ hasSize(n)
  \/ colliderType(n) \in PolygonTags
  \/ colliderType(n) = <<"Compound">> /\ hasChildren(n)

\* a Compound descendant that yields a collider rather than null
yieldsInCompound(n) ==
  \/ colliderType(n) \in {<<"Cuboid">>, <<"Ball">>} /\ hasSize(n)
  \/ colliderType(n) \in PolygonTags \cup {<<"Compound">>}

\* the Collider:* descendants of root in document order, each with the
\* nearest Collider:Compound node that encloses it (near, root at the start)
RECURSIVE descendantsIn(_, _)
descendantsIn(root, near) ==
  IF hasChildren(root)
  THEN Flatten([k \in 1..Len(root.children) |->
         (IF isColliderNameTrimmed(root.children[k])
          THEN <<[node |-> root.children[k], near |-> near]>> ELSE <<>>)
         \o descendantsIn(root.children[k],
              IF isColliderNameTrimmed(root.children[k])
                 /\ colliderType(root.children[k]) = <<"Compound">>
              THEN root.children[k] ELSE near)])
  ELSE <<>>

\* the colliders in the children of the Compound c emitted for node n, each
\* with its node, the node whose list holds it (owner) and the nearest
\* enclosing Compound node (near); fits is FALSE where a list and the nodes
\* do not pair up
RECURSIVE pairsInCompound(_, _)
pairsInCompound(c, n) ==
  LET ds == SelectSeq(descendantsIn(n, n), LAMBDA d : yieldsInCompound(d.node))
  IN  IF Len(c.children) # Len(ds) THEN <<[fits |-> FALSE]>>
      ELSE Flatten([k \in 1..Len(ds) |->
             <<[fits |-> TRUE, c |-> c.children[k], node |-> ds[k].node,
                owner |-> n, near |-> ds[k].near, top |-> FALSE]>>
             \o (IF c.children[k].type = "Compound"
                 THEN pairsInCompound(c.children[k], ds[k].node) ELSE <<>>)])

\* a collider built by buildSingleCollider from the direct collider node n
pairsAtTop(c, n, go) ==
  <<[fits |-> TRUE, c |-> c, node |-> n, owner |-> go, near |-> go, top |-> TRUE]>>
  \o (IF colliderType(n) = <<"Compound">> /\ c.type = "Compound"
      THEN pairsInCompound(c, n) ELSE <<>>)

\* every collider of the object of a trace entry that has a node of its own
pairsOf(e) ==
  LET go == groupOf(e)
      ns == SelectSeq(colliderNodes(go), yieldsAtTop)
      c == e.val.collider
  IN  IF ~e.ok \/ c = Null THEN <<>>
      ELSE IF Len(colliderNodes(go)) > 1
      THEN IF c.type # "Compound" \/ Len(c.children) # Len(ns) THEN <<[fits |-> FALSE]>>
           ELSE Flatten([k \in 1..Len(ns) |-> pairsAtTop(c.children[k], ns[k], go)])
      ELSE pairsAtTop(c, ns[1], go)

\* the pairs of every object built so far, with the level of each
pairsOfEntry(e, ps) ==
  [j \in 1..Len(ps) |-> [p |-> ps[j], e |-> e, go |-> groupOf(e), level |-> picked[e.level]]]

allPairs == Flatten([k \in 1..Len(trace) |-> pairsOfEntry(trace[k], pairsOf(trace[k]))])

\* the number of colliders of a kind in an emitted collider, at every depth
RECURSIVE emittedOfKind(_, _)
emittedOfKind(c, kind) ==
  IF c = Null THEN 0
  ELSE (IF c.type = kind THEN 1 ELSE 0)
       + (IF c.type = "Compound"
          THEN SeqSum([k \in 1..Len(c.children) |-> emittedOfKind(c.children[k], kind)])
          ELSE 0)

Kinds == {"Cuboid", "Ball", "ConvexHull", "Polyline", "Trimesh", "Compound"}

\* whether every collider inside c has rotation 0
RECURSIVE unrotated(_)
unrotated(c) ==
  /\ c.rotation = 0
  /\ c.type = "Compound" => \A k \in 1..Len(c.children) : unrotated(c.children[k])

\* the vertex list of a polygon collider
verticesOf(c) == IF c.type = "Trimesh" THEN c.triangles.vertices ELSE c.vertices

\* C5 (as stated): when the decomposition library throws or returns nothing
\* for a polygon that needs decomposing, the build does not throw, the
\* polygon comes back as one clockwise part with all its vertices, and a
\* warning is recorded by the reporter for it.
C5_DecompositionFailureIsWarned ==
  \A k \in 1..Len(trace) :
    LET e == trace[k]
        ns == colliderNodes(groupOf(e))
    IN  ( /\ lib \in {"throws", "empty"}
          /\ Len(ns) = 1
          /\ colliderType(ns[1]) = <<"Convex">>
          /\ e.ok
          /\ e.val.collider.type = "Compound" )
        => /\ Len(e.val.collider.children) = 1
           /\ areaSigned(e.val.collider.children[1].vertices) <= 0
           /\ Len(e.val.collider.children[1].vertices)
                = Len(getWorldPolygonVertices(ns[1]).val)
           /\ Len(e.after.warnings) > Len(e.before.warnings)

\* C6 (as stated): when the run is over, stats.colliders[k] is for every kind
\* k the number of colliders of that kind in the returned levels, the
\* children of compounds counted at every depth.
C6_StatsCountEmitted ==
  pc = "done" =>
    \A kind \in Kinds :
      colliderCount(reporter.stats.colliders, kind)
        = SeqSum([k \in 1..Len(results) |->
            SeqSum([j \in 1..Len(results[k].gameObjects) |->
              emittedOfKind(results[k].gameObjects[j].collider, kind)])])

\* C7: a group with two or more direct Collider:* children gets one Compound
\* at [0,0] with rotation 0 whose children are the colliders buildSingleCollider
\* makes of those nodes, in child order, the nulls left out; a run over the
\* Ball-and-Cuboid group alone ends with stats.colliders = {Compound: 1,
\* Ball: 1, Cuboid: 1}.
C7_SiblingsAreWrapped ==
  /\ \A k \in 1..Len(trace) :
       LET e == trace[k]
           go == groupOf(e)
           ns == colliderNodes(go)
           each == [j \in 1..Len(ns) |->
                      buildSingleCollider(ns[j], go, picked[e.level],
                                          envOf(makeReporter, <<>>), e.val.position, lib).val]
       IN  (e.ok /\ Len(ns) >= 2)
           => /\ e.val.collider.type = "Compound"
              /\ e.val.collider.position = <<0, 0>>
              /\ e.val.collider.rotation = 0
              /\ e.val.collider.children = SelectSeq(each, LAMBDA c : c # Null)
  /\ (pc = "done" /\ page = PlainPage(<<Scenes.Pair>>))
       => /\ DOMAIN reporter.stats.colliders = {"Compound", "Ball", "Cuboid"}
          /\ \A kind \in {"Compound", "Ball", "Cuboid"} : reporter.stats.colliders[kind] = 1

\* C7 happens: the Ball-and-Cuboid run is over, its Compound holding the two
C7_Witness ==
  /\ pc = "done"
  /\ page = PlainPage(<<Scenes.Pair>>)
  /\ Len(results[1].gameObjects[1].collider.children) = 2

\* the group of a trace entry is the case of C8: one direct collider, an
\* upright rectangle tagged Cuboid, and no body type
boxCase(e) ==
  LET go == groupOf(e)
      ns == SelectSeq(go.children, isColliderNameTrimmed)
  IN  /\ ppm = 1
      /\ Len(ns) = 1
      /\ ns[1].type = "RECTANGLE"
      /\ ns[1].name = <<"Collider:", "Cuboid">>
      /\ ns[1].absoluteTransform[1][1] = 1 /\ ns[1].absoluteTransform[1][2] = 0
      /\ findBodyType(go) = "null"

\* what C8 says the object of such a group is
boxObject(e) ==
  LET go == groupOf(e)
      n == SelectSeq(go.children, isColliderNameTrimmed)[1]
      level == picked[e.level]
      cx == n.absoluteTransform[1][3] + Quot(n.width, 2)
      cy == n.absoluteTransform[2][3] + Quot(n.height, 2)
  IN  /\ e.ok
      /\ e.val.name = trim(stripPrefix(go.name, "GameObject:"))
      /\ e.val.bodyType = "Static"
      /\ e.val.rotation = 0
      /\ e.val.collider = [type |-> "Cuboid", size |-> <<n.width, n.height>>,
                           position |-> <<0, 0>>, rotation |-> 0]
      /\ e.val.position = <<cx - level.absoluteTransform[1][3] - Quot(level.width, 2),
                            Quot(level.height, 2) - (cy - level.absoluteTransform[2][3])>>
      /\ pc = "done" =>
           results[e.level].gameObjects[
             Cardinality({j \in 1..Len(trace) : /\ trace[j].level = e.level
                                                /\ trace[j].idx <= e.idx
                                                /\ trace[j].ok})] = e.val

\* C8 (as stated): a group whose only collider is an upright w x h rectangle
\* tagged Cuboid, without a body type, exported at one pixel per unit, yields
\* one object with the trimmed name, Static, rotation 0, a Cuboid of size
\* [w,h] at [0,0] with rotation 0, placed at the rectangle's centre in
\* level-centred, Y-up coordinates.
C8_BoxScenario_AsStated ==
  \A k \in 1..Len(trace) : boxCase(trace[k]) => boxObject(trace[k])

\* C8 (amended): the same of a group that is itself not turned.
C8_BoxScenario ==
  \A k \in 1..Len(trace) :
    (boxCase(trace[k]) /\ getNodeRotation(groupOf(trace[k])) = 0) => boxObject(trace[k])

\* C8 happens: the object of an upright box in an upright group is returned
C8_Witness ==
  /\ pc = "done"
  /\ \E k \in 1..Len(trace) :
       /\ boxCase(trace[k])
       /\ getNodeRotation(groupOf(trace[k])) = 0
       /\ trace[k].val.collider.size = <<96, 48>>

\* a polygon collider is centred on its centroid, and position + vertices
\* are the source vertices seen from origin (in clockwise order, except for
\* a Polyline, which keeps the order of the source)
polygonPlaced(c, n, level, origin) ==
  LET w == getWorldPolygonVertices(n).val
      src == [i \in 1..Len(w) |->
                sub(toRapierFromFigmaWorld(w[i], level), origin)]
      v == verticesOf(c)
  IN  /\ SeqSum([i \in 1..Len(v) |-> v[i][1]]) = 0
      /\ SeqSum([i \in 1..Len(v) |-> v[i][2]]) = 0
      /\ [i \in 1..Len(v) |-> add(c.position, v[i])]
           = (IF c.type = "Polyline" THEN src ELSE ensureClockwise(src))

\* C9 (as stated): every ConvexHull, Polyline and Trimesh collider, the
\* children of explicit Compounds among them, is centred on its centroid and
\* positioned at that centroid in the frame of its parent, where neither the
\* parent nor the node is turned: the rigid-body anchor for a collider of the
\* group, the centre of the Compound for a Compound's child.
C9_PolygonsCentred ==
  \A q \in Range(allPairs) :
        ( /\ q.p.fits
          /\ q.p.c.type \in {"ConvexHull", "Polyline", "Trimesh"}
          /\ getNodeRotation(q.p.node) = 0
          /\ getNodeRotation(q.p.owner) = 0
          /\ q.p.owner = q.p.near )
        => polygonPlaced(q.p.c, q.p.node, q.level,
                         IF q.p.top THEN q.e.val.position
                         ELSE getPositionWithAnchorAdjustment(q.p.owner, q.level))

\* C10 (as stated): the rotation of every emitted collider is the world
\* rotation of its node less that of its logical parent: the group for a
\* collider of the group, the nearest enclosing Collider:Compound node for a
\* Compound's descendant, whatever the kind.
C10_RotationRelative_AsStated ==
  \A q \in Range(allPairs) :
        /\ q.p.fits
        /\ q.p.c.rotation = getNodeRotation(q.p.node) - getNodeRotation(q.p.near)

\* C10 (amended): a Cuboid, a Ball and an explicit Compound of the group have
\* the rotation of their node less that of the group; every collider in the
\* children of a Compound has the rotation of its node less that of the
\* Compound node whose list holds it; what is built from a Convex, Trimesh or
\* Polyline node of the group has rotation 0, its decomposition hulls too, and
\* so has the Compound that wraps several colliders.
C10_RotationRelative ==
  /\ \A q \in Range(allPairs) :
           /\ q.p.fits
           /\ IF q.p.top /\ colliderType(q.p.node) \in PolygonTags
              THEN unrotated(q.p.c)
              ELSE q.p.c.rotation = getNodeRotation(q.p.node) - getNodeRotation(q.p.owner)
  /\ \A k \in 1..Len(trace) :
       (trace[k].ok /\ Len(colliderNodes(groupOf(trace[k]))) > 1)
         => trace[k].val.collider.rotation = 0

\* C10 happens: a turned Cuboid in a turned group, a turned polygon of a
\* group, and a Compound's child that is turned against the Compound
C10_Witness ==
  /\ \E q \in Range(allPairs) :
       /\ q.p.top /\ q.p.c.type = "Cuboid"
       /\ getNodeRotation(q.go) # 0 /\ q.p.c.rotation # 0
  /\ \E q \in Range(allPairs) :
       /\ q.p.top /\ q.p.c.type = "ConvexHull"
       /\ getNodeRotation(q.p.node) # 0
  /\ \E q \in Range(allPairs) :
       /\ ~q.p.top /\ q.p.c.rotation # 0
       /\ getNodeRotation(q.p.owner) # 0

\* the collider leaf nodes of a group: its direct Collider:* children, a
\* Compound among them replaced by its Collider:* descendants that are not
\* Compounds
leafNodesOf(go) ==
  LET direct == SelectSeq(go.children, isColliderNameTrimmed)
  IN  Flatten([k \in 1..Len(direct) |->
        IF colliderType(direct[k]) = <<"Compound">>
        THEN [j \in 1..Len(SelectSeq(descendantsIn(direct[k], direct[k]),
                                      LAMBDA d : colliderType(d.node) # <<"Compound">>)) |->
                SelectSeq(descendantsIn(direct[k], direct[k]),
                          LAMBDA d : colliderType(d.node) # <<"Compound">>)[j].node]
        ELSE <<direct[k]>>])

\* the vertices of the nodes in physics space (level-centred, Y up)
physicsVerticesOf(nodes, level) ==
  UNION { { toRapierFromFigmaWorld(v, level) : v \in Range(getWorldPolygonVertices(n).val) }
          : n \in Range(nodes) }

\* the middle of the group's own box under its world transform, in physics space
visualCenter(go, level) ==
  LET c == applyToPoint(go.absoluteTransform, Quot(go.width, 2), Quot(go.height, 2))
  IN  <<c[1] - level.absoluteTransform[1][3] - Quot(level.width, 2),
        Quot(level.height, 2) - (c[2] - level.absoluteTransform[2][3])>>

\* p is the middle of the smallest upright box that holds the points
middleOfBox(p, pts) ==
  /\ \E lo \in pts, hi \in pts :
       /\ \A q \in pts : lo[1] <= q[1] /\ q[1] <= hi[1]
       /\ 2 * p[1] = lo[1] + hi[1]
  /\ \E lo \in pts, hi \in pts :
       /\ \A q \in pts : lo[2] <= q[2] /\ q[2] <= hi[2]
       /\ 2 * p[2] = lo[2] + hi[2]

\* C11: the position of every object built is the middle of the upright
\* bounding box of the physics-space vertices of its collider leaf nodes, and
\* the visual centre of the group when it has no direct Collider:* child or
\* its leaves have no vertex.
C11_PositionIsBoxCentre ==
  \A k \in 1..Len(trace) :
    trace[k].ok =>
      LET go == groupOf(trace[k])
          level == picked[trace[k].level]
          pts == physicsVerticesOf(leafNodesOf(go), level)
      IN  IF pts = {} THEN trace[k].val.position = visualCenter(go, level)
          ELSE middleOfBox(trace[k].val.position, pts)

\* C11 happens: an object whose leaves come out of a Compound is returned
\* away from the visual centre of its group
C11_Witness ==
  /\ pc = "done"
  /\ \E k \in 1..Len(trace) :
       /\ trace[k].ok
       /\ \E n \in Range(groupOf(trace[k]).children) :
            isColliderNameTrimmed(n) /\ colliderType(n) = <<"Compound">>
       /\ Len(leafNodesOf(groupOf(trace[k]))) >= 2
       /\ trace[k].val.position # visualCenter(groupOf(trace[k]), picked[trace[k].level])

\* the GROUP nodes named GameObject:* in the subtrees of the nodes, in
\* pre-order
RECURSIVE groupsBelow(_)
groupsBelow(nodes) ==
  IF nodes = <<>> THEN <<>>
  ELSE (IF /\ Head(nodes).type = "GROUP"
           /\ Len(Head(nodes).name) > 0
           /\ Head(nodes).name[1] = "GameObject:"
        THEN <<Head(nodes)>> ELSE <<>>)
       \o groupsBelow(Head(nodes).children)
       \o groupsBelow(Tail(nodes))

\* the indices of the groups of level l handed to buildGameObject so far, in
\* the order of the calls
handedOf(l) ==
  [k \in 1..Len(SelectSeq(trace, LAMBDA e : e.level = l)) |->
     SelectSeq(trace, LAMBDA e : e.level = l)[k].idx]

\* the texts of the 'progress' notifications posted so far, in order
progressTexts(u) ==
  [k \in 1..Len(SelectSeq(u, LAMBDA m : m.type = "progress")) |->
     SelectSeq(u, LAMBDA m : m.type = "progress")[k].text]

\* the picked levels without a GameObject group
emptyLevels == {l \in 1..Len(picked) : groupsBelow(picked[l].children) = <<>>}

\* C12: the groups of the level in hand are the GROUP nodes named
\* GameObject:* of its whole subtree in pre-order; of a level that is done
\* every one of them was handed to buildGameObject once, in that order, and
\* of the level in hand the ones before the loop's position; a returned level
\* without such a group has an empty gameObjects list and one warning.
C12_EveryGroupBuiltOnce ==
  /\ pc = "objects" => gameObjects = groupsBelow(picked[li].children)
  /\ \A l \in 1..Len(picked) :
       handedOf(l) = [k \in 1..(IF l < li THEN Len(groupsBelow(picked[l].children))
                                ELSE IF l = li /\ pc = "objects" THEN gi - 1
                                ELSE 0) |-> k]
  /\ progressTexts(ui) =
       Flatten([l \in 1..Len(picked) |->
         [k \in 1..Len(handedOf(l)) |->
            <<"Processed ">> \o groupsBelow(picked[l].children)[k].name]])
  /\ pc = "done" =>
       /\ \A l \in emptyLevels :
            /\ results[l].gameObjects = <<>>
            /\ \E k \in 1..Len(reporter.warnings) :
                 reporter.warnings[k] =
                   <<"Level ">> \o results[l].name \o <<" has no GameObject groups.">>
       /\ Cardinality({k \in 1..Len(reporter.warnings) : reporter.warnings[k][1] = "Level "})
            = Cardinality(emptyLevels)
       /\ emptyLevels = 1..Len(picked) => Len(reporter.warnings) = Len(picked)

\* C12 happens: a level whose groups include one nested in another group is
\* returned with both built
C12_Witness ==
  /\ pc = "done"
  /\ \E l \in 1..Len(picked) :
       /\ Len(handedOf(l)) >= 2
       /\ \E g \in Range(groupsBelow(picked[l].children)) :
            g \notin Range(picked[l].children)

\* a level container as discovery knows it: a FRAME named LevelBlock:*
isLevelContainer(n) ==
  n.type = "FRAME" /\ Len(n.name) > 0 /\ n.name[1] = "LevelBlock:"

\* the level containers in the subtrees of the nodes, in pre-order
RECURSIVE levelsBelow(_)
levelsBelow(nodes) ==
  IF nodes = <<>> THEN <<>>
  ELSE (IF isLevelContainer(Head(nodes)) THEN <<Head(nodes)>> ELSE <<>>)
       \o levelsBelow(Head(nodes).children)
       \o levelsBelow(Tail(nodes))

\* C13 (as stated): once the request is taken up, the levels to export are
\* the selected level containers in selection order when something is
\* selected, and every level container of the page tree in pre-order when
\* nothing is; the returned document holds one level for each, in that order.
C13_LevelsPicked ==
  /\ pc # "idle" =>
       picked = IF Len(page.selection) > 0
                THEN SelectSeq(page.selection, isLevelContainer)
                ELSE levelsBelow(page.children)
  /\ pc = "done" =>
       [l \in 1..Len(results) |-> results[l].name]
         = [l \in 1..Len(picked) |-> trim(Tail(picked[l].name))]

\* v is v1 with both coordinates multiplied by 1/p
vecScaled(v, v1, p) == p * v[1] = v1[1] /\ p * v[2] = v1[2]

\* vs is vs1 with every vertex multiplied by 1/p
vertsScaled(vs, vs1, p) ==
  Len(vs) = Len(vs1) /\ \A i \in 1..Len(vs1) : vecScaled(vs[i], vs1[i], p)

\* the collider c is c1 with its lengths multiplied by 1/p at every depth and
\* everything else as it was
RECURSIVE colliderScaled(_, _, _)
colliderScaled(c, c1, p) ==
  IF c1 = Null THEN c = Null
  ELSE /\ c # Null
       /\ DOMAIN c = DOMAIN c1
       /\ c.type = c1.type
       /\ c.rotation = c1.rotation
       /\ vecScaled(c.position, c1.position, p)
       /\ CASE c1.type = "Cuboid" -> vecScaled(c.size, c1.size, p)
            [] c1.type = "Ball" -> p * c.radius = c1.radius
            [] c1.type \in {"ConvexHull", "Polyline"} -> vertsScaled(c.vertices, c1.vertices, p)
            [] c1.type = "Trimesh" ->
                 /\ c.triangles.indices = c1.triangles.indices
                 /\ vertsScaled(c.triangles.vertices, c1.triangles.vertices, p)
            [] c1.type = "Compound" ->
                 /\ Len(c.children) = Len(c1.children)
                 /\ \A k \in 1..Len(c1.children) :
                      colliderScaled(c.children[k], c1.children[k], p)

\* the object o is o1 with its lengths multiplied by 1/p
objectScaled(o, o1, p) ==
  /\ o.name = o1.name
  /\ o.bodyType = o1.bodyType
  /\ o.customParams = o1.customParams
  /\ o.rotation = o1.rotation
  /\ vecScaled(o.position, o1.position, p)
  /\ colliderScaled(o.collider, o1.collider, p)

\* the objects of level l as they are at one pixel per unit: built on their
\* own from the groups of the level
unscaledOf(l) == builtUpTo(picked[l], Len(groupsBelow(picked[l].children)))

\* C14: every level pushed by a run at p pixels per unit is the level of the
\* run at one pixel per unit with width, height, object positions and, at
\* every depth of the collider tree, positions, sizes, radii and vertices
\* multiplied by 1/p; names, body types, parameters, rotations, triangle
\* indices and the shape of the tree are the same, and multiplying by p
\* gives the lengths at one pixel per unit back.
C14_ScaledByFactor ==
  \A l \in 1..Len(results) :
    LET built == unscaledOf(l)
    IN  /\ results[l].name = trim(Tail(picked[l].name))
        /\ ppm * results[l].width = picked[l].width
        /\ ppm * results[l].height = picked[l].height
        /\ Len(results[l].gameObjects) = Len(built)
        /\ \A j \in 1..Len(built) : objectScaled(results[l].gameObjects[j], built[j], ppm)

\* C14 happens: a run at two pixels per unit returns a Compound that holds a
\* Compound, with lengths that are not zero
C14_Witness ==
  /\ pc = "done"
  /\ ppm = 2
  /\ \E l \in 1..Len(results) : \E j \in 1..Len(results[l].gameObjects) :
       LET c == results[l].gameObjects[j].collider
       IN  /\ c # Null
           /\ c.type = "Compound"
           /\ \E k \in 1..Len(c.children) :
                /\ c.children[k].type = "Compound"
                /\ c.children[k].position # <<0, 0>>
                /\ \E m \in 1..Len(c.children[k].children) :
                     c.children[k].children[m].type = "Ball"

\* the pixels per unit C15 says a request is exported with
requestedPpm == IF msg.ppm.finite /\ msg.ppm.v > 0 THEN msg.ppm.v ELSE 1

\* C15: every level pushed is scaled by 1/p and records p as
\* meta.units.pixelsPerUnit, where p is the pixels per unit of the request
\* when that is a finite number above 0, and 1 when it is zero, negative, not
\* a number, infinite or missing.
C15_EffectivePixelsPerUnit ==
  \A l \in 1..Len(results) :
    LET built == unscaledOf(l)
    IN  /\ Len(built) = Len(results[l].gameObjects)
        /\ results[l].meta.units.pixelsPerUnit = requestedPpm
        /\ requestedPpm * results[l].width = picked[l].width
        /\ requestedPpm * results[l].height = picked[l].height
        /\ \A j \in 1..Len(results[l].gameObjects) :
             objectScaled(results[l].gameObjects[j], built[j], requestedPpm)

\* C15 happens: a request with a negative pixels-per-unit returns an object
C15_Witness ==
  /\ pc = "done"
  /\ msg.ppm.finite /\ msg.ppm.v < 0
  /\ \E l \in 1..Len(results) : \E j \in 1..Len(results[l].gameObjects) :
       results[l].gameObjects[j].position # <<0, 0>>

\* the one element of a set of one
the(S) == CHOOSE x \in S : TRUE

\* the reporter of a run that is never interrupted, after the groups of a
\* level from the k-th on
RECURSIVE aloneObjects(_, _, _, _)
aloneObjects(found, k, level, env) ==
  IF k > Len(found) THEN env
  ELSE the({ aloneObjects(found, k + 1, level, afterTry(found[k], built)) :
             built \in {buildGameObject(found[k], level, env, lib)} })

\* and after the levels from the k-th on
RECURSIVE aloneLevels(_, _, _)
aloneLevels(levels, k, env) ==
  IF k > Len(levels) \/ ~findGameObjects(levels[k]).ok THEN env
  ELSE the({ aloneLevels(levels, k + 1, after) :
             after \in { aloneObjects(found, 1, levels[k],
                                      warnIfEmpty(env, trim(stripPrefix(levels[k].name,
                                                                        "LevelBlock:")), found)) :
                         found \in {findGameObjects(levels[k]).val} } })

\* the levels a request for the page is run on
levelsOfRequest ==
  IF Len(page.selection) > 0
  THEN SelectSeq(page.selection, LAMBDA n : startsWith(n.name, "LevelBlock:"))
  ELSE findLevelBlocks(page.children)

\* the positions in the UI port of the messages of a type
postedOfType(t) == {k \in 1..Len(ui) : ui[k].type = t}

\* C16: when two requests are served at once, their runs taking turns at the
\* yields of the object loop, the document each of them returns carries the
\* warnings and the collider counts of its own run: the ones the same request
\* gets when it is served alone.  (The document is looked at when the run
\* has posted it: it is the last message of the port then.)
C16_RunsKeepOwnDiagnostics ==
  pc = "done" =>
    LET alone == reporterOf(aloneLevels(levelsOfRequest, 1, envOf(makeReporter, <<>>)))
    IN  /\ Len(alone.warnings) >= 0
        /\ ui[Len(ui)].type = "done"
        /\ \A l \in 1..Len(ui[Len(ui)].levels) :
             /\ ui[Len(ui)].levels[l].meta.warnings = alone.warnings
             /\ ui[Len(ui)].levels[l].meta.stats = alone.stats

\* C16 happens: the second request was taken up before the first one was
\* answered, both are answered, and the run warned and counted colliders
C16_Witness ==
  /\ pc = "done" /\ other.pc = "done"
  /\ \E a, b \in postedOfType("done") : \E s \in postedOfType("status") :
       /\ 1 < s /\ s < a /\ a < b
       /\ Len(ui[b].levels) > 0
       /\ ui[b].levels[1].meta.warnings # <<>>
       /\ ui[b].levels[1].meta.stats.colliders # <<>>

\* C17: a level that has been pushed to the results does not change any
\* more: read through its meta, its warnings and its stats are after every
\* step of the run what they were before it.
C17_PushedLevelsFrozen ==
  [][\A l \in 1..Len(results) :
       /\ resolveLevel(results[l], reporter').meta.warnings
            = resolveLevel(results[l], reporter).meta.warnings
       /\ resolveLevel(results[l], reporter').meta.stats
            = resolveLevel(results[l], reporter).meta.stats]_vars

\* twice the area of the triangle on three points
triangleArea(a, b, c) ==
  LET z == (b[1] - a[1]) * (c[2] - a[2]) - (b[2] - a[2]) * (c[1] - a[1])
  IN  IF z < 0 THEN -z ELSE z

\* C18: triangulateConcave returns its input vertices with indices into them:
\* every index is in [0, n), the vertex an index picks in the returned list
\* is the point the ear-clipper had at that position of its own (reversed)
\* list, and the n - 2 triangles read against the returned vertices have
\* areas that add up to the area of the polygon.
C18_IndicesFitReturnedVertices ==
  (calc.fn = "triangulateConcave" /\ calc.returned) =>
    LET v == calc.out.vertices
        idx == calc.out.indices
        n == Len(v)
        seen == Reverse(calc.vertices)
    IN  /\ v = calc.vertices
        /\ Len(idx) = 3 * (n - 2)
        /\ \A k \in 1..Len(idx) : idx[k] \in 0..(n - 1) /\ v[idx[k] + 1] = seen[idx[k] + 1]
        /\ SeqSum([t \in 1..(n - 2) |->
                     triangleArea(v[idx[3 * t - 2] + 1], v[idx[3 * t - 1] + 1], v[idx[3 * t] + 1])])
             = (IF areaSigned(v) < 0 THEN -areaSigned(v) ELSE areaSigned(v))

\* a call of simplifyPolygon with a budget of at least 3 has returned
budgetedCall ==
  /\ calc.fn = "simplifyPolygon" /\ calc.returned
  /\ calc.opts.hasMaxPoints /\ calc.opts.maxPoints >= 3

\* C19 (as stated): with a budget maxPoints = k of at least 3, simplifyPolygon
\* returns exactly k vertices.
C19_ExactlyBudget_AsStated ==
  budgetedCall => Len(calc.out) = calc.opts.maxPoints

\* C19 (amended): with a budget maxPoints = k of at least 3, simplifyPolygon
\* returns exactly k vertices when the same call without a budget returns
\* more than k, and as many as that call returns when they are k or fewer.
C19_ExactlyBudget ==
  budgetedCall =>
    LET free == simplifyPolygon(calc.vertices, [calc.opts EXCEPT !.hasMaxPoints = FALSE])
    IN  Len(calc.out) = (IF Len(free) > calc.opts.maxPoints THEN calc.opts.maxPoints
                         ELSE Len(free))

\* C19 happens: an octagon that epsilon 0 leaves whole comes back with the
\* five vertices of its budget
C19_Witness ==
  /\ budgetedCall
  /\ calc.opts.hasEpsilon /\ calc.opts.epsilon = 0
  /\ calc.opts.maxPoints = 5
  /\ Len(calc.vertices) = 8
  /\ Len(calc.out) = 5

\* C20: for a polygon of at least 3 vertices, an epsilon of 0 or more and any
\* budget, simplifyPolygon returns at least 3 vertices, every one of them a
\* vertex of the input, wound clockwise (signed area at most 0).
C20_SimplifiedIsPolygon ==
  (/\ calc.fn = "simplifyPolygon" /\ calc.returned
   /\ Len(calc.vertices) >= 3
   /\ calc.opts.hasEpsilon => calc.opts.epsilon >= 0)
  => /\ Len(calc.out) >= 3
     /\ \A i \in 1..Len(calc.out) : calc.out[i] \in Range(calc.vertices)
     /\ areaSigned(calc.out) <= 0

\* C20 happens: an epsilon that flattens the whole outline of a
\* counter-clockwise octagon, and a budget below 3
C20_Witness ==
  /\ calc.fn = "simplifyPolygon" /\ calc.returned
  /\ Len(calc.vertices) = 8 /\ areaSigned(calc.vertices) > 0
  /\ calc.opts.hasEpsilon /\ calc.opts.epsilon = 100
  /\ calc.opts.hasMaxPoints /\ calc.opts.maxPoints = 2
  /\ Len(calc.out) = 3

\* C21: ensureClockwise returns a list of signed area at most 0 and ensureCCW
\* one of signed area at least 0; what either returns is its argument or its
\* argument reversed, and applying the function again to what it returned
\* changes nothing.
C21_WindingEnsured ==
  (calc.fn \in {"ensureClockwise", "ensureCCW"} /\ calc.returned) =>
    /\ calc.out \in {calc.vertices, Reverse(calc.vertices)}
    /\ calc.fn = "ensureClockwise" =>
         areaSigned(calc.out) <= 0 /\ ensureClockwise(calc.out) = calc.out
    /\ calc.fn = "ensureCCW" =>
         areaSigned(calc.out) >= 0 /\ ensureCCW(calc.out) = calc.out

\* C21 happens: a counter-clockwise hexagon has been handed to
\* ensureClockwise and has come back reversed
C21_Witness ==
  /\ calc.fn = "ensureClockwise" /\ calc.returned
  /\ Len(calc.vertices) = 6 /\ areaSigned(calc.vertices) > 0
  /\ calc.out = Reverse(calc.vertices) /\ calc.out # calc.vertices

\* flattenSVGPath is about to read the command letter c
reading(c) ==
  /\ calc.fn = "flattenSVGPath" /\ ~calc.returned
  /\ calc.st.i <= Len(calc.data)
  /\ isLetter(calc.data[calc.st.i])
  /\ toUpperCase(calc.data[calc.st.i].c) = c

\* the point of the move that is about to be read
movePoint ==
  LET x == calc.data[calc.st.i + 1].n
      y == calc.data[calc.st.i + 2].n
  IN  IF calc.data[calc.st.i].c = "m" THEN <<calc.st.curr[1] + x, calc.st.curr[2] + y>>
      ELSE <<x, y>>

\* what a move read while a contour is active does, the contour it leaves
\* being pushed with the closed mark given
moveEmits(closed) ==
  (reading("M") /\ ~calc.st.active.isNull) =>
    /\ calc'.st.contours
         = Append(calc.st.contours, [pts |-> calc.st.active.pts, closed |-> closed])
    /\ ~calc'.st.active.isNull
    /\ calc'.st.active.pts[1] = movePoint
    /\ calc'.st.start = movePoint

\* what was pushed is returned, with the mark it was pushed with
returnedAsPushed ==
  (calc.fn = "flattenSVGPath" /\ calc.returned) =>
    \A k \in 1..Len(calc.st.contours) :
      calc.out[k] = [pts |-> dedupeCloseAt(calc.st.contours[k].pts, calc.eps2),
                     closed |-> calc.st.contours[k].closed]

\* C22 (as stated): a move read while the current contour is non-empty
\* emits that contour, which is returned marked closed, and starts a new
\* contour at the move point.
C22_MoveEmitsContour_AsStated == [][moveEmits(TRUE)]_vars /\ []returnedAsPushed

\* C22 (amended): a move read while the current contour is non-empty emits
\* that contour, which is returned marked open, and starts a new contour at
\* the move point.
C22_MoveEmitsContour == [][moveEmits(FALSE)]_vars /\ []returnedAsPushed

\* C22 happens: a path with a move after a line has returned two contours,
\* the first of them open with its two points
C22_Witness ==
  /\ calc.fn = "flattenSVGPath" /\ calc.returned
  /\ Len(calc.out) = 2
  /\ ~calc.out[1].closed /\ Len(calc.out[1].pts) = 2
  /\ calc.out[2].pts[1] = <<128, 128>>

\* what a close-path read while a contour is active does
closeEmits ==
  (reading("Z") /\ ~calc.st.active.isNull) =>
    LET a == calc.st.active.pts
        pushed == calc'.st.contours[Len(calc.st.contours) + 1]
    IN  /\ Len(calc'.st.contours) = Len(calc.st.contours) + 1
        /\ SubSeq(calc'.st.contours, 1, Len(calc.st.contours)) = calc.st.contours
        /\ pushed.closed
        /\ pushed.pts \in {a, Append(a, calc.st.start)}
        /\ pushed.pts[1] = calc.st.start /\ pushed.pts[Len(pushed.pts)] = calc.st.start
        /\ calc'.st.active.isNull
        /\ calc'.st.curr = calc.st.start

\* what the end of the input does with a contour that is still active
endEmits ==
  (calc.fn = "flattenSVGPath" /\ ~calc.returned /\ calc'.returned /\ ~calc.st.active.isNull) =>
    /\ Len(calc'.out) = Len(calc.st.contours) + 1
    /\ calc'.out[Len(calc'.out)] = [pts |-> dedupeCloseAt(calc.st.active.pts, calc.eps2), closed |-> FALSE]

\* the moves among the segments read
movesRead == SelectSeq(calc.st.segs, LAMBDA g : g.kind = "M")

\* the contours returned are those the moves began, each of them once
everyContourOnce ==
  (calc.fn = "flattenSVGPath" /\ calc.returned) =>
    /\ Len(calc.out) = Len(movesRead)
    /\ \A k \in 1..Len(calc.out) : calc.out[k].pts[1] = movesRead[k].to

\* C23: a close-path emits the current contour marked closed and reconnected
\* to its start, and puts the current point back at that start; a contour
\* still active when the input ends is emitted marked open; every contour is
\* returned once, none twice and none lost.
C23_CloseAndEnd == [][closeEmits]_vars /\ [][endEmits]_vars /\ []everyContourOnce

\* C23 happens: a path has returned a contour closed by a close-path and,
\* after it, the open contour that was active when the input ended
C23_Witness ==
  /\ calc.fn = "flattenSVGPath" /\ calc.returned
  /\ Len(calc.out) = 2
  /\ calc.out[1].closed /\ Len(calc.out[1].pts) >= 2
  /\ ~calc.out[2].closed

\* what a horizontal or vertical line read while a contour is active appends:
\* the one coordinate given, taken absolute or added to the current one, and
\* the other coordinate of the current point
axisLineAppends(C, relative) ==
  (reading(C) /\ ~calc.st.active.isNull /\ isRelative(calc.data[calc.st.i].c) = relative) =>
    LET v == calc.data[calc.st.i + 1].n
        x == calc.st.curr[1]
        y == calc.st.curr[2]
        p == CASE C = "H" /\ relative -> <<x + v, y>>
               [] C = "H" /\ ~relative -> <<v, y>>
               [] C = "V" /\ relative -> <<x, y + v>>
               [] C = "V" /\ ~relative -> <<x, v>>
        pts == calc'.st.active.pts
    IN  /\ pts[Len(pts)] = p
        /\ calc'.st.curr = p

\* C27: an absolute 'H x' appends (x, y of the current point) and an absolute
\* 'V y' appends (x of the current point, y); the relative forms add their
\* offset to the one coordinate and keep the other.
C27_AxisLines ==
  /\ [][axisLineAppends("H", FALSE)]_vars /\ [][axisLineAppends("V", FALSE)]_vars
  /\ [][axisLineAppends("H", TRUE)]_vars /\ [][axisLineAppends("V", TRUE)]_vars

\* the control point the k-th segment read should have inferred, were it a
\* smooth command: the reflection of the previous segment's last control point
\* when that segment was a curve, the current point otherwise
smoothControl(segs, k) ==
  IF k > 1 /\ segs[k - 1].kind \in {"Q", "T", "C", "S"}
  THEN <<2 * segs[k].from[1] - segs[k - 1].lastC2.p[1],
         2 * segs[k].from[2] - segs[k - 1].lastC2.p[2]>>
  ELSE segs[k].from

\* C25: a smooth command S/s or T/t infers its first control point as
\* 2 * current - c, c being the last control point of the segment just before
\* it, when that segment was a curve, and as the current point when it was
\* not (start of path, move, line, arc, close).
C25_SmoothControl ==
  calc.fn = "flattenSVGPath" =>
    \A k \in 1..Len(calc.st.segs) :
      calc.st.segs[k].kind \in {"S", "T"} => calc.st.segs[k].c1 = smoothControl(calc.st.segs, k)

\* the points of a returned contour that follow one another are more than
\* eps apart
consecutiveApart(c) ==
  \A k \in 1..(Len(c.pts) - 1) : apart(c.pts[k], c.pts[k + 1], calc.eps2)

\* the first and the last point of a returned contour of two points or more
\* are more than eps apart
endsApart(c) ==
  Len(c.pts) >= 2 => apart(c.pts[1], c.pts[Len(c.pts)], calc.eps2)

\* C24: in every contour flattenSVGPath returns, no two consecutive points
\* are within eps (1e-3) of each other, and the first and the last point are
\* not within eps of each other.
C24_ContoursDeduped ==
  (calc.fn = "flattenSVGPath" /\ calc.returned) =>
    \A k \in 1..Len(calc.out) : consecutiveApart(calc.out[k]) /\ endsApart(calc.out[k])

\* the contours of the node the call is about, in the world
contoursOfNode ==
  toWorldContours(calc.node.absoluteTransform,
    Flatten([k \in 1..Len(calc.node.vectorPaths) |-> flattenSVGPath(calc.node.vectorPaths[k])]))

\* the call has returned one of the contours of the set that is largest by
\* the sizes given
returnedLargest(among, size) ==
  \E k \in among : /\ calc.out = dedupeClose(contoursOfNode[k].pts)
                    /\ \A j \in among : size[j] <= size[k]

\* the choice among the contours, the closed contours that count being those
\* of at least minPoints points
choiceOfContour(minPoints) ==
  (calc.fn = "getWorldPolygonVertices" /\ calc.returned) =>
    LET all == 1..Len(contoursOfNode)
        closed == {k \in all : contoursOfNode[k].closed /\ Len(contoursOfNode[k].pts) >= minPoints}
        bbox == [k \in all |-> areaOfBBox(contoursOfNode[k].pts)]
        points == [k \in all |-> Len(contoursOfNode[k].pts)]
    IN  /\ all # {}
        /\ IF closed # {} THEN returnedLargest(closed, bbox)
           ELSE returnedLargest(all, points)

emittedFor(q) ==
  {r \in Range(allPairs) : /\ r.e = q.e
                           /\ r.p.fits /\ ~r.p.top
                           /\ r.p.node = q.p.node}

\* C28: every Collider:* node beneath an explicit Collider:Compound gives
\* exactly one collider, a child of the Compound that encloses it most
\* closely: the output nests as the Compound nodes nest in the scene.
C28_CompoundsNest ==
  \A q \in Range(allPairs) :
    (q.p.fits /\ ~q.p.top) => (q.p.owner = q.p.near /\ Cardinality(emittedFor(q)) = 1)

\* the centre, in the physics space of the level, of the collider built from
\* a direct collider node: the centre of the node's box, and for the polygon
\* kinds the centroid of the node's vertices
centreInLevel(n, level) ==
  IF colliderType(n) \in PolygonTags
  THEN LET w == getWorldPolygonVertices(n).val
       IN  centroid([i \in 1..Len(w) |-> toRapierFromFigmaWorld(w[i], level)])
  ELSE getPositionWithAnchorAdjustment(n, level)

\* the place the preview gives a collider of an object: add(goPos, rotated(colPos, goRot))
placedByPreview(c, obj) == add(obj.position, rot(c.position, obj.rotation))

\* C29: for every collider built from a direct collider node of an object,
\* whatever its kind, anchor + rotate(position, object rotation) is the centre
\* of the collider in the physics space of the level.
C29_PositionInObjectFrame ==
  \A q \in Range(allPairs) :
    (q.p.fits /\ q.p.top) => placedByPreview(q.p.c, q.e.val) = centreInLevel(q.p.node, q.level)

\* C30: when the run is over, meta.stats.levels (every level's meta holds the
\* reporter's stats object) is the number of levels returned and
\* meta.stats.gameObjects the number of objects in them.
C30_StatsCountLevelsAndObjects ==
  pc = "done" =>
    /\ reporter.stats.levels = Len(results)
    /\ reporter.stats.gameObjects = SeqSum([k \in 1..Len(results) |-> Len(results[k].gameObjects)])

=============================================================================
